---- MODULE Spec2Model ----
(***************************************************************************)
(* A model of the Knox compiler: the Wasm emitter (knox_codegen_wasm) and  *)
(* the module it emits, run on a small WebAssembly machine; the parser and *)
(* the type checker (knox_compiler) as the compile pipeline.               *)
(*                                                                         *)
(* Source spans are left out of tokens, AST nodes and diagnostics: the     *)
(* code only stores them, no branch reads one.                             *)
(***************************************************************************)
EXTENDS Integers, Sequences, FiniteSets, TLC

VARIABLES
    program,   \* the IR Program handed to emit_from_ir
    wasm,      \* the emitted module (NoModule before emit_from_ir ran)
    frames,    \* the machine's call stack, innermost frame last
    mem,       \* linear memory: the bytes written so far (all others are 0)
    glob,      \* global 0, the bump pointer
    out,       \* the bytes fd_write has written to stdout, in order
    calls,     \* the host and function calls made so far, in order
    status,    \* "ir" | "emitted" | "running" | "exited" | "trap"
    tokens,    \* the token list handed to Parser::new
    stage,     \* the pipeline's position: "lexed" | "parsed" | "checked" | "failed"
    root,      \* the AST after parse_root and desugar_root
    parsed,    \* what parse_root returned
    diagnostics, \* the Vec<Diagnostic> compile returns as Err, or the checker holds
    source,    \* the characters of the source text the Lexer was built on
    offset,    \* Lexer::offset: the bytes of source consumed so far
    deps,      \* the (module name, Root) pairs the accessor pass and lowering read
    layouts,   \* the Vec<StructLayout> side table
    accessors, \* the Vec<AccessorSpec> side table
    setters,   \* the names the setter naming functions returned
    runs       \* the results of the runs of lower_to_ir and emit_from_ir so far

vars == <<program, wasm, frames, mem, glob, out, calls, status,
          tokens, stage, root, parsed, diagnostics, source, offset,
          deps, layouts, accessors, setters, runs>>

machineVars == <<program, wasm, frames, mem, glob, out, calls, status>>
lexVars == <<source, offset>>
sideVars == <<deps, layouts, accessors, setters, runs>>
frontVars == <<tokens, stage, root, parsed, diagnostics, lexVars, sideVars>>

(***************************************************************************)
(* Bounds of the model.                                                    *)
(***************************************************************************)
\* print(n) is run for every n in 0..MaxPrintArg (and the edge arguments).
MaxPrintArg == 2100

(***************************************************************************)
(* i32 arithmetic of the WebAssembly machine (two's complement, 32 bits).  *)
(***************************************************************************)
MaxI32 == 2147483647
MinI32 == -2147483647 - 1

\* i32.add: the sum modulo 2^32, as a signed value.
I32AddOp(a, b) ==
    IF b > 0 /\ a > MaxI32 - b THEN (a + MinI32) + (b + MinI32)
    ELSE IF b < 0 /\ a < MinI32 - b THEN (a - MinI32) + (b - MinI32)
    ELSE a + b

\* a / b toward zero for b > 0, from the floor division of TLA+.
TruncDivPos(a, b) ==
    IF a >= 0 \/ a % b = 0 THEN a \div b ELSE (a \div b) + 1

\* i32.div_s truncates toward zero (the machine traps before b = 0 and
\* before MinI32 / -1).
I32DivSOp(a, b) ==
    IF b > 0 THEN TruncDivPos(a, b)
    ELSE IF b = MinI32 THEN (IF a = MinI32 THEN 1 ELSE 0)
    ELSE -TruncDivPos(a, -b)

\* i32.rem_s: the remainder has the sign of the dividend.
I32RemSOp(a, b) == a - b * I32DivSOp(a, b)

Bool2I32(c) == IF c THEN 1 ELSE 0

\* The low byte of an i32 (what i32.store8 writes).
LowByte(v) == v % 256

\* The four little-endian bytes of an i32 (what i32.store writes).
Bytes32(v) ==
    << v % 256, (v \div 256) % 256, (v \div 65536) % 256, (v \div 16777216) % 256 >>

\* The i32 whose little-endian bytes are b (what i32.load reads).
FromBytes32(b) ==
    LET hi == IF b[4] >= 128 THEN b[4] - 256 ELSE b[4]
    IN  b[1] + 256 * b[2] + 65536 * b[3] + 16777216 * hi

(***************************************************************************)
(* Linear memory: one page, zero-initialised.                              *)
(***************************************************************************)
PAGE_SIZE == 65536

ReadByte(m, addr) == IF addr \in DOMAIN m THEN m[addr] ELSE 0

WriteByte(m, addr, b) ==
    [x \in (DOMAIN m) \cup {addr} |-> IF x = addr THEN b ELSE m[x]]

Load32(m, addr) ==
    FromBytes32(<< ReadByte(m, addr), ReadByte(m, addr + 1),
                   ReadByte(m, addr + 2), ReadByte(m, addr + 3) >>)

Store32(m, addr, v) ==
    LET b == Bytes32(v)
    IN  [x \in (DOMAIN m) \cup (addr .. addr + 3) |->
            IF x \in addr .. addr + 3 THEN b[x - addr + 1] ELSE m[x]]

InBounds(addr, n) == addr >= 0 /\ addr + n <= PAGE_SIZE

\* The bytes m holds at [addr, addr + n).
ReadBytes(m, addr, n) ==
    IF n <= 0 THEN << >>
    ELSE [k \in 1 .. n |-> ReadByte(m, addr + k - 1)]

(***************************************************************************)
(* Wasm instructions and IR instructions.                                  *)
(***************************************************************************)
W(op) == [op |-> op, a |-> 0]
W1(op, a) == [op |-> op, a |-> a]

Ir(op) == [op |-> op, a |-> 0, b |-> 0, c |-> 0, d |-> 0]
Ir1(op, a) == [op |-> op, a |-> a, b |-> 0, c |-> 0, d |-> 0]
Ir2(op, a, b) == [op |-> op, a |-> a, b |-> b, c |-> 0, d |-> 0]
Ir3(op, a, b, c) == [op |-> op, a |-> a, b |-> b, c |-> c, d |-> 0]
Ir4(op, a, b, c, d) == [op |-> op, a |-> a, b |-> b, c |-> c, d |-> d]

IrFunction(name, params, locals, body) ==
    [name |-> name, params |-> params, locals |-> locals, body |-> body]

Program(functions, struct_layouts, string_data) ==
    [functions |-> functions, struct_layouts |-> struct_layouts,
     string_data |-> string_data]

(***************************************************************************)
(* knox_codegen_wasm: emit_from_ir and its helpers.                        *)
(***************************************************************************)
RUNTIME_BASE == 8192
ITOA_OFF == RUNTIME_BASE
IOV_OFF == ITOA_OFF + 12
NEWLINE_OFF == IOV_OFF + 16
NWRITTEN_OFF == NEWLINE_OFF + 4
BUMP_INITIAL == NWRITTEN_OFF + 4

\* Function indices of the two imports and the two helpers.
FD_WRITE == 0
PROC_EXIT == 1
PRINT_INT == 2
PRINT_STR == 3

\* The Type section: parameter and result counts of the eight function types.
TypeSection ==
    << [params |-> 4, results |-> 1],   \* 0: fd_write
       [params |-> 1, results |-> 0],   \* 1: proc_exit
       [params |-> 1, results |-> 0],   \* 2: print_int
       [params |-> 2, results |-> 0],   \* 3: print_str
       [params |-> 0, results |-> 0],   \* 4: () -> ()
       [params |-> 1, results |-> 1],   \* 5: getter int
       [params |-> 2, results |-> 0],   \* 6: setter
       [params |-> 1, results |-> 2] >> \* 7: getter string

HasOp(body, op) == \E i \in 1..Len(body) : body[i].op = op

ir_func_type_index(f) ==
    LET has_return_int == HasOp(f.body, "ReturnInt")
        has_return_str == HasOp(f.body, "ReturnStr")
    IN  IF Len(f.params) = 0 THEN 4
        ELSE IF Len(f.params) = 1 /\ has_return_str THEN 7
        ELSE IF Len(f.params) = 1 /\ has_return_int THEN 5
        ELSE IF Len(f.params) = 2 THEN 6
        ELSE 4

emit_print_int_body(itoa_off, iov_off, newline_off, nwritten_off) ==
    LET d0 == 48 IN
    << W1("LocalGet", 0), W1("I32Const", 10), W("I32RemS"),
       W1("I32Const", d0), W("I32Add"), W1("LocalSet", 1),
       W1("I32Const", itoa_off + 1), W1("LocalGet", 1), W("I32Store8"),
       W1("LocalGet", 0), W1("I32Const", 10), W("I32DivS"),
       W1("I32Const", d0), W("I32Add"), W1("LocalSet", 1),
       W1("I32Const", itoa_off), W1("LocalGet", 1), W("I32Store8"),
       W1("LocalGet", 0), W1("I32Const", 10), W("I32LtS"),
       W("If"),
       W1("I32Const", itoa_off + 1), W("I32Load8U"), W1("LocalSet", 1),
       W1("I32Const", itoa_off), W1("LocalGet", 1), W("I32Store8"),
       W("End"),
       W1("I32Const", 1), W1("LocalGet", 0), W1("I32Const", 10), W("I32GeS"),
       W("I32Add"), W1("LocalTee", 1), W("Drop"),
       \* first fd_write: the digits
       W1("I32Const", iov_off), W1("I32Const", itoa_off), W("I32Store"),
       W1("I32Const", iov_off + 4), W1("LocalGet", 1), W("I32Store"),
       W1("I32Const", 1), W1("I32Const", iov_off), W1("I32Const", 1),
       W1("I32Const", nwritten_off), W1("Call", FD_WRITE), W("Drop"),
       \* second fd_write: the newline
       W1("I32Const", iov_off), W1("I32Const", newline_off), W("I32Store"),
       W1("I32Const", iov_off + 4), W1("I32Const", 1), W("I32Store"),
       W1("I32Const", 1), W1("I32Const", iov_off), W1("I32Const", 1),
       W1("I32Const", nwritten_off), W1("Call", FD_WRITE), W("Drop"),
       W("End") >>

emit_print_str_body(iov_off, newline_off, nwritten_off) ==
    << W1("I32Const", iov_off), W1("LocalGet", 0), W("I32Store"),
       W1("I32Const", iov_off + 4), W1("LocalGet", 1), W("I32Store"),
       W1("I32Const", 1), W1("I32Const", iov_off), W1("I32Const", 1),
       W1("I32Const", nwritten_off), W1("Call", FD_WRITE), W("Drop"),
       W1("I32Const", iov_off), W1("I32Const", newline_off), W("I32Store"),
       W1("I32Const", iov_off + 4), W1("I32Const", 1), W("I32Store"),
       W1("I32Const", 1), W1("I32Const", iov_off), W1("I32Const", 1),
       W1("I32Const", nwritten_off), W1("Call", FD_WRITE), W("Drop"),
       W("End") >>

\* `v as i32`: every integer of the model is already within i32.
AsI32(v) == v

\* A bump by the size as it is, without the rounding.
AlignUp4_unrounded(size) == size

\* (size + 3) & !3
AlignUp4(size) == ((size + 3) \div 4) * 4

\* string_offsets: entry k is the sum of the lengths of string_data[0..k-1].
RECURSIVE StringOffsetsFrom(_, _, _)
StringOffsetsFrom(string_data, k, off) ==
    IF k > Len(string_data) THEN << >>
    ELSE << off >> \o StringOffsetsFrom(string_data, k + 1, off + Len(string_data[k]))

string_offsets_of(prog) == StringOffsetsFrom(prog.string_data, 1, 0)

\* Vec::get(i) with unwrap_or(0) / map(len).unwrap_or(0); i counts from 0.
GetOr0(seq, i) == IF i + 1 \in 1..Len(seq) THEN seq[i + 1] ELSE 0
LenOr0(seq, i) == IF i + 1 \in 1..Len(seq) THEN Len(seq[i + 1]) ELSE 0
TotalSizeOr0(ls, i) ==
    IF i + 1 \in 1..Len(ls) THEN ls[i + 1].total_size ELSE 0

\* The Wasm instructions emit_ir_function writes for one IR instruction.
EmitInstr(instr, prog, string_offsets, func_base) ==
    CASE instr.op = "ConstInt" -> << W1("I32Const", AsI32(instr.a)) >>
      [] instr.op = "ConstString" ->
            << W1("I32Const", GetOr0(string_offsets, instr.c)),
               W1("LocalSet", instr.a),
               W1("I32Const", LenOr0(prog.string_data, instr.c)),
               W1("LocalSet", instr.b) >>
      [] instr.op = "LocalGet" -> << W1("LocalGet", instr.a) >>
      [] instr.op = "LocalSet" -> << W1("LocalSet", instr.a) >>
      [] instr.op = "StructAlloc" ->
            << W1("GlobalGet", 0), W1("GlobalGet", 0),
               W1("I32Const", AlignUp4(TotalSizeOr0(prog.struct_layouts, instr.a))),
               W("I32Add"), W1("GlobalSet", 0) >>
      [] instr.op = "StructSet" ->
            << W1("LocalGet", instr.a), W1("I32Const", instr.b), W("I32Add"),
               W1("LocalGet", instr.c), W("I32Store") >>
      [] instr.op = "StructSetStr" ->
            << W1("LocalGet", instr.a), W1("I32Const", instr.b), W("I32Add"),
               W1("LocalGet", instr.c), W("I32Store"),
               W1("LocalGet", instr.a), W1("I32Const", instr.b + 4), W("I32Add"),
               W1("LocalGet", instr.d), W("I32Store") >>
      [] instr.op = "StructGet" ->
            << W1("LocalGet", instr.a), W1("I32Const", instr.b), W("I32Add"),
               W("I32Load"), W1("LocalSet", instr.c) >>
      [] instr.op = "StructGetStr" ->
            << W1("LocalGet", instr.a), W1("I32Const", instr.b), W("I32Add"),
               W("I32Load"), W1("LocalSet", instr.c),
               W1("LocalGet", instr.a), W1("I32Const", instr.b + 4), W("I32Add"),
               W("I32Load"), W1("LocalSet", instr.d) >>
      [] instr.op = "Call" -> << W1("Call", func_base + instr.a) >>
      [] instr.op = "CallStr" ->
            << W1("Call", func_base + instr.a),
               W1("LocalSet", instr.c), W1("LocalSet", instr.b) >>
      [] instr.op = "PrintInt" -> << W1("LocalGet", instr.a), W1("Call", PRINT_INT) >>
      [] instr.op = "PrintStr" ->
            << W1("LocalGet", instr.a), W1("LocalGet", instr.b), W1("Call", PRINT_STR) >>
      [] instr.op = "Return" -> << W("End") >>
      [] instr.op = "ReturnInt" -> << W1("LocalGet", instr.a), W("End") >>
      [] instr.op = "ReturnStr" ->
            << W1("LocalGet", instr.a), W1("LocalGet", instr.b), W("End") >>

IsReturn(instr) == instr.op \in {"Return", "ReturnInt", "ReturnStr"}

\* The loop of emit_ir_function from body[k] on: it stops after the first
\* Return*, and writes the closing End itself when the body has none.
RECURSIVE EmitBodyFrom(_, _, _, _, _)
EmitBodyFrom(body, k, prog, string_offsets, func_base) ==
    IF k > Len(body) THEN << W("End") >>
    ELSE IF IsReturn(body[k]) THEN EmitInstr(body[k], prog, string_offsets, func_base)
    ELSE EmitInstr(body[k], prog, string_offsets, func_base)
         \o EmitBodyFrom(body, k + 1, prog, string_offsets, func_base)

emit_ir_function(f, prog, string_offsets, func_base) ==
    EmitBodyFrom(f.body, 1, prog, string_offsets, func_base)

MAIN_IDX == 4

\* The func_base emit_from_ir hands to emit_ir_function for functions[ir_idx].
FuncBaseOf(ir_idx) == MAIN_IDX + ir_idx

RECURSIVE ConcatAll(_, _)
ConcatAll(seqs, k) ==
    IF k > Len(seqs) THEN << >> ELSE seqs[k] \o ConcatAll(seqs, k + 1)

\* The body of the synthesised _start.

\* A _start that calls main before it stores the newline byte.
StartBody_main_first ==
    << W1("Call", MAIN_IDX),
       W1("I32Const", NEWLINE_OFF), W1("I32Const", 10), W("I32Store8"),
       W1("I32Const", 0), W1("Call", PROC_EXIT), W("End") >>

StartBody ==
    << W1("I32Const", NEWLINE_OFF), W1("I32Const", 10), W("I32Store8"),
       W1("Call", MAIN_IDX), W1("I32Const", 0), W1("Call", PROC_EXIT), W("End") >>


\* A module whose Start section names main in place of the synthesised _start.
emit_from_ir_start_main(prog) ==
    LET n == Len(prog.functions)
        string_offsets == string_offsets_of(prog)
    IN  [ types |-> TypeSection,
          imports |-> << "fd_write", "proc_exit" >>,
          functions |->
              << 2, 3 >> \o [k \in 1..n |-> ir_func_type_index(prog.functions[k])]
              \o << 4 >>,
          memory_min |-> 1,
          global_init |-> BUMP_INITIAL,
          export_memory |-> 0,
          export_start |-> 4 + n,
          start |-> MAIN_IDX,
          codes |->
              << [locals |-> 1,
                  body |-> emit_print_int_body(ITOA_OFF, IOV_OFF, NEWLINE_OFF,
                                               NWRITTEN_OFF)],
                 [locals |-> 0,
                  body |-> emit_print_str_body(IOV_OFF, NEWLINE_OFF, NWRITTEN_OFF)] >>
              \o [k \in 1..n |->
                    [locals |-> Len(prog.functions[k].locals),
                     body |-> emit_ir_function(prog.functions[k], prog,
                                               string_offsets, FuncBaseOf(k - 1))]]
              \o << [locals |-> 0, body |-> StartBody] >>,
          data |-> ConcatAll(prog.string_data, 1) ]

\* The module emit_from_ir builds.  functions[k] is the type index of the
\* internal function k (Wasm index k + 1, counting the two imports);
\* codes[k] its declared locals and body.
emit_from_ir(prog) ==
    LET n == Len(prog.functions)
        string_offsets == string_offsets_of(prog)
        start_idx == 4 + n
    IN  [ types |-> TypeSection,
          imports |-> << "fd_write", "proc_exit" >>,
          functions |->
              << 2, 3 >> \o [k \in 1..n |-> ir_func_type_index(prog.functions[k])]
              \o << 4 >>,
          memory_min |-> 1,
          global_init |-> BUMP_INITIAL,
          export_memory |-> 0,
          export_start |-> start_idx,
          start |-> start_idx,
          codes |->
              << [locals |-> 1,
                  body |-> emit_print_int_body(ITOA_OFF, IOV_OFF, NEWLINE_OFF,
                                               NWRITTEN_OFF)],
                 [locals |-> 0,
                  body |-> emit_print_str_body(IOV_OFF, NEWLINE_OFF, NWRITTEN_OFF)] >>
              \o [k \in 1..n |->
                    [locals |-> Len(prog.functions[k].locals),
                     body |-> emit_ir_function(prog.functions[k], prog,
                                               string_offsets, FuncBaseOf(k - 1))]]
              \o << [locals |-> 0, body |-> StartBody] >>,
          data |-> ConcatAll(prog.string_data, 1) ]

NoModule == [codes |-> << >>]

(***************************************************************************)
(* The WebAssembly machine that runs the emitted module under WASI.        *)
(***************************************************************************)
\* The type index of the function at Wasm index fidx.
FuncType(m, fidx) ==
    IF fidx = FD_WRITE THEN m.types[1]
    ELSE IF fidx = PROC_EXIT THEN m.types[2]
    ELSE m.types[m.functions[fidx - 1] + 1]

IsDefined(m, fidx) == fidx >= 2 /\ fidx - 1 <= Len(m.codes)

Zeros(n) == [k \in 1..n |-> 0]

\* A fresh frame for the function fidx called with args.
NewFrame(m, fidx, args) ==
    [fidx |-> fidx, pc |-> 1, depth |-> 0,
     locals |-> args \o Zeros(m.codes[fidx - 1].locals),
     stack |-> << >>]

Top == frames[Len(frames)]
CurBody == wasm.codes[Top.fidx - 1].body
CurInstr == CurBody[Top.pc]

\* The stack without its n topmost values, and those n values (oldest first).
DropN(st, n) == SubSeq(st, 1, Len(st) - n)
TopN(st, n) == SubSeq(st, Len(st) - n + 1, Len(st))

\* The index of the End that closes the block opened by the If at pc.
RECURSIVE MatchingEnd(_, _, _)
MatchingEnd(body, pc, depth) ==
    IF pc > Len(body) THEN pc
    ELSE IF body[pc].op = "If" THEN MatchingEnd(body, pc + 1, depth + 1)
    ELSE IF body[pc].op = "End" THEN
        IF depth = 0 THEN pc ELSE MatchingEnd(body, pc + 1, depth - 1)
    ELSE MatchingEnd(body, pc + 1, depth)

\* Operands an instruction pops.
Pops(op) ==
    CASE op \in {"I32Add", "I32RemS", "I32DivS", "I32LtS", "I32GeS",
                 "I32Store", "I32Store8"} -> 2
      [] op \in {"LocalSet", "LocalTee", "Drop", "If", "GlobalSet",
                 "I32Load", "I32Load8U"} -> 1
      [] OTHER -> 0

\* One instruction other than a call or a function's End: the frame, memory
\* and global after it, or a trap.
ExecInstr(f, ins, m, g) ==
    LET st == f.stack
        n == Len(st)
        x == st[n - 1]     \* second operand from the top (when Pops = 2)
        y == st[n]         \* top operand
        rest2 == DropN(st, 2)
        rest1 == DropN(st, 1)
        step(newstack) == [f EXCEPT !.pc = f.pc + 1, !.stack = newstack]
        ok(fr, mm, gg) == [trap |-> FALSE, frame |-> fr, mem |-> mm, glob |-> gg]
        trapped == [trap |-> TRUE, frame |-> f, mem |-> m, glob |-> g]
    IN  IF n < Pops(ins.op) THEN trapped
        ELSE CASE ins.op = "I32Const" -> ok(step(Append(st, ins.a)), m, g)
          [] ins.op = "LocalGet" ->
                IF ins.a + 1 \in 1..Len(f.locals)
                THEN ok(step(Append(st, f.locals[ins.a + 1])), m, g) ELSE trapped
          [] ins.op = "LocalSet" ->
                IF ins.a + 1 \in 1..Len(f.locals)
                THEN ok([f EXCEPT !.pc = f.pc + 1, !.stack = rest1,
                                  !.locals[ins.a + 1] = y], m, g)
                ELSE trapped
          [] ins.op = "LocalTee" ->
                IF ins.a + 1 \in 1..Len(f.locals)
                THEN ok([f EXCEPT !.pc = f.pc + 1, !.locals[ins.a + 1] = y], m, g)
                ELSE trapped
          [] ins.op = "GlobalGet" -> ok(step(Append(st, g)), m, g)
          [] ins.op = "GlobalSet" -> ok(step(rest1), m, y)
          [] ins.op = "Drop" -> ok(step(rest1), m, g)
          [] ins.op = "I32Add" -> ok(step(Append(rest2, I32AddOp(x, y))), m, g)
          [] ins.op = "I32RemS" ->
                IF y = 0 THEN trapped
                ELSE ok(step(Append(rest2, I32RemSOp(x, y))), m, g)
          [] ins.op = "I32DivS" ->
                IF y = 0 \/ (x = MinI32 /\ y = -1) THEN trapped
                ELSE ok(step(Append(rest2, I32DivSOp(x, y))), m, g)
          [] ins.op = "I32LtS" -> ok(step(Append(rest2, Bool2I32(x < y))), m, g)
          [] ins.op = "I32GeS" -> ok(step(Append(rest2, Bool2I32(x >= y))), m, g)
          [] ins.op = "I32Store8" ->
                IF InBounds(x, 1) THEN ok(step(rest2), WriteByte(m, x, LowByte(y)), g)
                ELSE trapped
          [] ins.op = "I32Store" ->
                IF InBounds(x, 4) THEN ok(step(rest2), Store32(m, x, y), g)
                ELSE trapped
          [] ins.op = "I32Load8U" ->
                IF InBounds(y, 1) THEN ok(step(Append(rest1, ReadByte(m, y))), m, g)
                ELSE trapped
          [] ins.op = "I32Load" ->
                IF InBounds(y, 4) THEN ok(step(Append(rest1, Load32(m, y))), m, g)
                ELSE trapped
          [] ins.op = "If" ->
                IF y # 0
                THEN ok([f EXCEPT !.pc = f.pc + 1, !.stack = rest1,
                                  !.depth = f.depth + 1], m, g)
                ELSE ok([f EXCEPT !.pc = MatchingEnd(CurBody, f.pc + 1, 0) + 1,
                                  !.stack = rest1], m, g)
          [] ins.op = "End" ->   \* the End of an If block (depth > 0)
                ok([f EXCEPT !.pc = f.pc + 1, !.depth = f.depth - 1], m, g)
          [] OTHER -> trapped

Running == status = "running" /\ Len(frames) > 0 /\ Top.pc <= Len(CurBody)

\* emit_from_ir runs on the Program.
EmitFromIr ==
    /\ status = "ir"
    /\ wasm' = emit_from_ir(program)
    /\ status' = "emitted"
    /\ UNCHANGED <<program, frames, mem, glob, out, calls, frontVars>>

\* The host instantiates the module: the active data segment is copied to
\* offset 0, the global takes its initial value and the Start section's
\* function is called.
Instantiate ==
    /\ status = "emitted"
    /\ mem' = [x \in 0 .. Len(wasm.data) - 1 |-> wasm.data[x + 1]]
    /\ glob' = wasm.global_init
    /\ frames' = << NewFrame(wasm, wasm.start, << >>) >>
    /\ calls' = << wasm.start >>
    /\ status' = "running"
    /\ UNCHANGED <<program, wasm, out, frontVars>>

\* An instruction that is neither a call nor the End of a function.
Exec ==
    /\ Running
    /\ CurInstr.op # "Call"
    /\ ~(CurInstr.op = "End" /\ Top.depth = 0)
    /\ LET r == ExecInstr(Top, CurInstr, mem, glob)
       IN  /\ frames' = [frames EXCEPT ![Len(frames)] = r.frame]
           /\ mem' = r.mem
           /\ glob' = r.glob
           /\ status' = IF r.trap THEN "trap" ELSE "running"
    /\ UNCHANGED <<program, wasm, out, calls, frontVars>>

\* call f, for a function the module defines: the arguments leave the
\* caller's stack and become the first locals of the new frame.
CallFunc ==
    /\ Running
    /\ CurInstr.op = "Call"
    /\ CurInstr.a \notin {FD_WRITE, PROC_EXIT}
    /\ LET fidx == CurInstr.a
           np == IF IsDefined(wasm, fidx) THEN FuncType(wasm, fidx).params ELSE 0
       IN  IF ~IsDefined(wasm, fidx) \/ Len(Top.stack) < np
           THEN /\ status' = "trap"
                /\ UNCHANGED <<frames, calls>>
           ELSE /\ frames' =
                     Append([frames EXCEPT ![Len(frames)].stack = DropN(Top.stack, np),
                                           ![Len(frames)].pc = Top.pc + 1],
                            NewFrame(wasm, fidx, TopN(Top.stack, np)))
                /\ calls' = Append(calls, fidx)
                /\ UNCHANGED status
    /\ UNCHANGED <<program, wasm, mem, glob, out, frontVars>>

\* The End of a function body: the frame is popped and the results of the
\* function's type move to the caller's stack.
Return ==
    /\ Running
    /\ CurInstr.op = "End"
    /\ Top.depth = 0
    /\ LET nr == FuncType(wasm, Top.fidx).results
       IN  IF Len(Top.stack) < nr
           THEN /\ status' = "trap"
                /\ UNCHANGED frames
           ELSE /\ frames' =
                     IF Len(frames) = 1 THEN << >>
                     ELSE [DropN(frames, 1) EXCEPT ![Len(frames) - 1].stack =
                              frames[Len(frames) - 1].stack \o TopN(Top.stack, nr)]
                /\ status' = IF Len(frames) = 1 THEN "exited" ELSE "running"
    /\ UNCHANGED <<program, wasm, mem, glob, out, calls, frontVars>>

\* The bytes of the iovec array [iovs, iovs + 8 * n): for each entry, the
\* len bytes at ptr.
RECURSIVE IovBytes(_, _, _)
IovBytes(m, iovs, n) ==
    IF n <= 0 THEN << >>
    ELSE ReadBytes(m, Load32(m, iovs), Load32(m, iovs + 4))
         \o IovBytes(m, iovs + 8, n - 1)

\* call 0: WASI fd_write(fd, iovs, iovs_len, nwritten).  The bytes of the
\* iovecs go to stdout, their count to *nwritten, and errno 0 is returned.
FdWrite ==
    /\ Running
    /\ CurInstr.op = "Call"
    /\ CurInstr.a = FD_WRITE
    /\ IF Len(Top.stack) < 4
       THEN /\ status' = "trap"
            /\ UNCHANGED <<frames, mem, out, calls>>
       ELSE LET args == TopN(Top.stack, 4)
                bytes == IovBytes(mem, args[2], args[3])
            IN  /\ out' = IF args[1] = 1 THEN out \o bytes ELSE out
                /\ mem' = Store32(mem, args[4], Len(bytes))
                /\ frames' = [frames EXCEPT
                                ![Len(frames)].stack = Append(DropN(Top.stack, 4), 0),
                                ![Len(frames)].pc = Top.pc + 1]
                /\ calls' = Append(calls, FD_WRITE)
                /\ UNCHANGED status
    /\ UNCHANGED <<program, wasm, glob, frontVars>>

\* call 1: WASI proc_exit(code) ends the run.
ProcExit ==
    /\ Running
    /\ CurInstr.op = "Call"
    /\ CurInstr.a = PROC_EXIT
    /\ status' = IF Len(Top.stack) < 1 THEN "trap" ELSE "exited"
    /\ calls' = Append(calls, PROC_EXIT)
    /\ UNCHANGED <<program, wasm, frames, mem, glob, out, frontVars>>

MachineNext == EmitFromIr \/ Instantiate \/ Exec \/ CallFunc \/ Return \/ FdWrite \/ ProcExit

(***************************************************************************)
(* print(n): the Program lowering gives `fn main() -> () { print(n); }`.   *)
(***************************************************************************)
TyInt == [tag |-> "Int"]

\* lower_expr_to_local of an integer literal, then PrintInt, then the
\* Return lower_function appends.
PrintProgram(n) ==
    Program(<< IrFunction("main", << >>, << TyInt >>,
                          << Ir1("ConstInt", n), Ir1("LocalSet", 0),
                             Ir1("PrintInt", 0), Ir("Return") >>) >>,
            << >>, << >>)

\* Arguments beyond 0..MaxPrintArg: negative and extreme i32 values.
EdgeArgs == {-1, -9, -10, -2080, MinI32, MaxI32}

PrintArgs == (0 .. MaxPrintArg) \cup EdgeArgs

SideIdle ==
    /\ deps = << >>
    /\ layouts = << >>
    /\ accessors = << >>
    /\ setters = << >>
    /\ runs = << >>

FrontIdle ==
    /\ source = << >>
    /\ offset = 0
    /\ SideIdle
    /\ tokens = << >>
    /\ stage = "idle"
    /\ root = << >>
    /\ parsed = << >>
    /\ diagnostics = << >>

InitPrintInt ==
    /\ \E n \in PrintArgs : program = PrintProgram(n)
    /\ wasm = NoModule
    /\ frames = << >>
    /\ mem = << >>
    /\ glob = 0
    /\ out = << >>
    /\ calls = << >>
    /\ status = "ir"
    /\ FrontIdle

SpecPrintInt == InitPrintInt /\ [][MachineNext]_vars

\* The argument of the print(n) being run.
PrintArg == program.functions[1].body[1].a

\* The decimal digits of n >= 0 as ASCII bytes, without leading zeros.
RECURSIVE Decimal(_)
Decimal(n) == IF n < 10 THEN << 48 + n >> ELSE Append(Decimal(n \div 10), 48 + (n % 10))

\* C1: for every n in [0, 999], print(n) writes exactly the decimal
\* representation of n followed by one newline byte.
C1_PrintsDecimal ==
    (status = "exited" /\ PrintArg \in 0..999) => out = Append(Decimal(PrintArg), 10)

\* What the helper does do: one or two digits, right up to 99.
C1_TwoDigits ==
    (status = "exited" /\ PrintArg \in 0..99) => out = Append(Decimal(PrintArg), 10)

\* C2: no byte written to stdout by print(int) is 0x00, whatever the i32.
C2_NoNulByte ==
    \A i \in 1..Len(out) : out[i] # 0

(***************************************************************************)
(* Programs whose functions call one another, for emit_from_ir.            *)
(***************************************************************************)
\* Programs have 1..MaxFuncs functions.
MaxFuncs == 3

\* A call of the int-returning function i on the receiver in local 0, as
\* lowering writes it: LocalGet(rec), Call(i), LocalSet(dest).
CallIntSeq(i) == << Ir1("LocalGet", 0), Ir1("Call", i), Ir1("LocalSet", 1) >>

\* A call of the string-returning function i: LocalGet(rec), CallStr(i, ptr, len).
CallStrSeq(i) == << Ir1("LocalGet", 0), Ir3("CallStr", i, 1, 2) >>

\* The bodies main can have in a Program of n functions.
MainBodies(n) ==
    { << Ir("Return") >> }
    \cup { CallIntSeq(i) \o << Ir("Return") >> : i \in 0 .. n - 1 }
    \cup { CallStrSeq(i) \o << Ir("Return") >> : i \in 0 .. n - 1 }

\* The functions after main: the getters lowering generates, and getters
\* that hand the receiver on to another function of the Program.
OtherFuncs(n) ==
    { IrFunction("get", << TyInt >>, << TyInt >>,
                 << Ir3("StructGet", 0, 0, 1), Ir1("ReturnInt", 1) >>),
      IrFunction("get_str", << TyInt >>, << TyInt, TyInt >>,
                 << Ir4("StructGetStr", 0, 0, 1, 2), Ir2("ReturnStr", 1, 2) >>) }
    \cup { IrFunction("via", << TyInt >>, << TyInt >>,
                      CallIntSeq(i) \o << Ir1("ReturnInt", 1) >>) : i \in 0 .. n - 1 }
    \cup { IrFunction("via_str", << TyInt >>, << TyInt, TyInt >>,
                      CallStrSeq(i) \o << Ir2("ReturnStr", 1, 2) >>) : i \in 0 .. n - 1 }

\* All sequences of length n over S.
RECURSIVE SeqsOfLen(_, _)
SeqsOfLen(S, n) ==
    IF n = 0 THEN { << >> }
    ELSE { Append(t, x) : t \in SeqsOfLen(S, n - 1), x \in S }

CallPrograms ==
    UNION { { Program(<< IrFunction("main", << >>, << TyInt, TyInt, TyInt >>, mb) >> \o rest,
                      << >>, << >>) :
              mb \in MainBodies(n), rest \in SeqsOfLen(OtherFuncs(n), n - 1) } :
            n \in 1 .. MaxFuncs }

InitEmit ==
    /\ program \in CallPrograms
    /\ wasm = NoModule
    /\ frames = << >>
    /\ mem = << >>
    /\ glob = 0
    /\ out = << >>
    /\ calls = << >>
    /\ status = "ir"
    /\ FrontIdle

SpecEmit == InitEmit /\ [][EmitFromIr]_vars

\* The targets of the Call and CallStr instructions of an IR body, in order.
RECURSIVE IrCallTargets(_, _)
IrCallTargets(body, k) ==
    IF k > Len(body) THEN << >>
    ELSE IF body[k].op \in {"Call", "CallStr"}
         THEN << body[k].a >> \o IrCallTargets(body, k + 1)
         ELSE IrCallTargets(body, k + 1)

\* The targets of the Wasm calls of a body that are not calls of an import
\* or of a helper, in order.
RECURSIVE WasmCallTargets(_, _)
WasmCallTargets(body, k) ==
    IF k > Len(body) THEN << >>
    ELSE IF body[k].op = "Call" /\ body[k].a >= MAIN_IDX
         THEN << body[k].a >> \o WasmCallTargets(body, k + 1)
         ELSE WasmCallTargets(body, k + 1)

\* The Wasm code emitted for program.functions[k] (k counts from 1).
CodeOf(k) == wasm.codes[k + 2].body

\* C3: whatever the position k of the calling function, every Call(i) and
\* CallStr(i, _, _) of its body is emitted as a Wasm call of index i + 4.
C3_CallIndex ==
    status = "emitted" =>
        \A k \in 1 .. Len(program.functions) :
            LET t == IrCallTargets(program.functions[k].body, 1)
            IN  WasmCallTargets(CodeOf(k), 1) = [j \in 1 .. Len(t) |-> t[j] + 4]

\* The same for main alone (k = 0), where the emitted index is right.
C3_MainCallIndex ==
    status = "emitted" =>
        LET t == IrCallTargets(program.functions[1].body, 1)
        IN  WasmCallTargets(CodeOf(1), 1) = [j \in 1 .. Len(t) |-> t[j] + 4]


\* The index of the last function of the module: the imports come first in
\* the function index space, then the entries of the Function section.
LastFuncIdx == Len(wasm.imports) + Len(wasm.functions) - 1

\* C19: for a Program of N functions the module exports memory 0 (the field
\* export_memory is the export named `memory`) and function 4 + N (the field
\* export_start is the export named `_start`), the Start section names the
\* same index, and the function of that index is the synthesised _start, the
\* last entry of the Function and of the Code section.
C19_StartExport ==
    status = "emitted" =>
        LET n == Len(program.functions) IN
        /\ wasm.export_memory = 0
        /\ wasm.export_start = 4 + n
        /\ wasm.start = wasm.export_start
        /\ LastFuncIdx = 4 + n
        /\ Len(wasm.codes) = Len(wasm.functions)
        /\ wasm.functions[Len(wasm.functions)] = 4
        /\ wasm.codes[Len(wasm.codes)] =
               [locals |-> 0,
                body |-> << W1("I32Const", NEWLINE_OFF), W1("I32Const", 10), W("I32Store8"),
                            W1("Call", 4), W1("I32Const", 0), W1("Call", 1), W("End") >>]

\* A Program of three functions: _start is function 7.
C19_Witness ==
    /\ status = "emitted"
    /\ Len(program.functions) = 3
    /\ wasm.export_start = 7
    /\ wasm.start = 7
    /\ LastFuncIdx = 7

(***************************************************************************)
(* knox_compiler: tokens and the AST the parser builds.                    *)
(*                                                                         *)
(* A Rust String that holds an identifier or a literal's text is the       *)
(* sequence of its characters; enum discriminants are TLA+ strings.        *)
(***************************************************************************)
T(kind) == [kind |-> kind, s |-> << >>, n |-> 0]
TIdent(s) == [kind |-> "Ident", s |-> s, n |-> 0]
TInt(n) == [kind |-> "IntLiteral", s |-> << >>, n |-> n]
TStr(s) == [kind |-> "StringLiteral", s |-> s, n |-> 0]

\* Option<T>: None is the empty sequence, Some(x) the sequence of x alone.
None == << >>
Some(x) == << x >>

TypeU64 == [tag |-> "U64"]
TypeInt == [tag |-> "Int"]
TypeString == [tag |-> "String"]
TypeBool == [tag |-> "Bool"]
TypeDynamic == [tag |-> "Dynamic"]
TypeUnit == [tag |-> "Unit"]
TypeOption(inner) == [tag |-> "Option", inner |-> inner]
TypeResult(okty, errty) == [tag |-> "Result", okty |-> okty, errty |-> errty]
TypeNamed(name) == [tag |-> "Named", name |-> name]
TypeRef(inner, is_mut) == [tag |-> "Ref", inner |-> inner, is_mut |-> is_mut]

LitInt(n) == [tag |-> "Int", n |-> n]
LitString(s) == [tag |-> "String", s |-> s]
LitBool(b) == [tag |-> "Bool", b |-> b]
LitUnit == [tag |-> "Unit"]

ExprLiteral(lit) == [tag |-> "Literal", lit |-> lit]
ExprIdent(name) == [tag |-> "Ident", name |-> name]
ExprFieldAccess(receiver, field) ==
    [tag |-> "FieldAccess", receiver |-> receiver, field |-> field]
ExprCall(callee, args) == [tag |-> "Call", callee |-> callee, args |-> args]
ExprIf(cond, then_block, else_block) ==
    [tag |-> "If", cond |-> cond, then_block |-> then_block, else_block |-> else_block]
ExprMatch(scrutinee, arms) == [tag |-> "Match", scrutinee |-> scrutinee, arms |-> arms]
ExprBlock(block) == [tag |-> "Block", block |-> block]
ExprBinaryOp(op, left, right) ==
    [tag |-> "BinaryOp", op |-> op, left |-> left, right |-> right]
ExprUnaryOp(op, expr) == [tag |-> "UnaryOp", op |-> op, expr |-> expr]
ExprRef(is_mut, target) == [tag |-> "Ref", is_mut |-> is_mut, target |-> target]
ExprDeref(expr) == [tag |-> "Deref", expr |-> expr]

StmtLet(name, mutability, type_annot, init) ==
    [tag |-> "Let", name |-> name, mutability |-> mutability,
     type_annot |-> type_annot, init |-> init]
StmtAssignDeref(name, expr) == [tag |-> "AssignDeref", name |-> name, expr |-> expr]
StmtAssign(name, expr) == [tag |-> "Assign", name |-> name, expr |-> expr]
StmtExpr(expr) == [tag |-> "Expr", expr |-> expr]
StmtReturn(value) == [tag |-> "Return", value |-> value]

Block(stmts) == [stmts |-> stmts]
MatchArm(pattern, body) == [pattern |-> pattern, body |-> body]
PatWildcard == [tag |-> "Wildcard"]
PatLiteral(lit) == [tag |-> "Literal", lit |-> lit]
PatRecordDestruct(fields) == [tag |-> "RecordDestruct", fields |-> fields]

Param(name, ty) == [name |-> name, ty |-> ty]
FnDecl(name, params, return_type, body, pub_vis) ==
    [name |-> name, params |-> params, return_type |-> return_type,
     body |-> body, pub_vis |-> pub_vis]
FieldAttrs(get, set) == [get |-> get, set |-> set]
StructField(name, ty, attrs) == [name |-> name, ty |-> ty, attrs |-> attrs]
StructDecl(name, fields) == [name |-> name, fields |-> fields]
ImportDecl(path, alias, items) == [path |-> path, alias |-> alias, items |-> items]

ItemFn(f) == [tag |-> "Fn", decl |-> f]
ItemStruct(sd) == [tag |-> "Struct", decl |-> sd]
ItemImport(imp) == [tag |-> "Import", decl |-> imp]
Root(items) == [items |-> items]

(***************************************************************************)
(* knox_compiler::parser.  Every parse function takes the token list and   *)
(* the iterator's position and returns Ok(value) with the position after   *)
(* it, or Err(message).                                                    *)
(***************************************************************************)
Ok(v, p) == [ok |-> TRUE, v |-> v, p |-> p, err |-> << >>]
Err(msg) == [ok |-> FALSE, v |-> << >>, p |-> 0, err |-> msg]

\* A panic: the call does not return; Try hands it on like an Err.
Panic(msg) == [ok |-> FALSE, v |-> << >>, p |-> 0, err |-> msg, panic |-> TRUE]
IsPanic(r) == "panic" \in DOMAIN r

\* A peek that yields no Eof of its own at the end of the list.
peek_no_eof(ts, p) == IF p <= Len(ts) THEN ts[p].kind ELSE "None"

\* Parser::peek: the kind of the next token, Eof when there is none.
peek(ts, p) == IF p <= Len(ts) THEN ts[p].kind ELSE "Eof"

\* Parser::next yields no token at the end of the list.
AtEnd(ts, p) == p > Len(ts)

\* Parser::expect: the next token is consumed and must be of the kind.
expect(ts, p, kind) ==
    IF AtEnd(ts, p) THEN Err(<< "Unexpected end of file" >>)
    ELSE IF ts[p].kind # kind THEN Err(<< "Expected {:?}, got {:?}", kind, ts[p].kind >>)
    ELSE Ok(<< >>, p + 1)

\* next() that must be an identifier, with the message of the caller.
NextIdent(ts, p, msg) ==
    IF AtEnd(ts, p) THEN Err(<< msg >>)
    ELSE IF ts[p].kind # "Ident" THEN Err(<< msg >>)
    ELSE Ok(ts[p].s, p + 1)

NoBp == [some |-> FALSE, op |-> "", left_bp |-> 0, right_bp |-> 0]
Bp(op, l, r) == [some |-> TRUE, op |-> op, left_bp |-> l, right_bp |-> r]

\* Parser::infix_binding_power on the kind peek() returns.
infix_binding_power(kind) ==
    CASE kind = "OrOr" -> Bp("Or", 1, 0)
      [] kind = "AndAnd" -> Bp("And", 2, 1)
      [] kind = "Eq" -> Bp("Eq", 3, 2)
      [] kind = "Ne" -> Bp("Ne", 3, 2)
      [] kind = "Lt" -> Bp("Lt", 4, 3)
      [] kind = "Le" -> Bp("Le", 4, 3)
      [] kind = "Gt" -> Bp("Gt", 4, 3)
      [] kind = "Ge" -> Bp("Ge", 4, 3)
      [] kind = "Plus" -> Bp("Add", 5, 4)
      [] kind = "Minus" -> Bp("Sub", 5, 4)
      [] kind = "Star" -> Bp("Mul", 6, 5)
      [] kind = "Slash" -> Bp("Div", 6, 5)
      [] kind = "Percent" -> Bp("Rem", 6, 5)
      [] OTHER -> NoBp

S_u64 == << "u", "6", "4" >>
S_int == << "i", "n", "t" >>
S_string == << "s", "t", "r", "i", "n", "g" >>
S_bool == << "b", "o", "o", "l" >>
S_dynamic == << "d", "y", "n", "a", "m", "i", "c" >>
S_Option == << "O", "p", "t", "i", "o", "n" >>
S_Result == << "R", "e", "s", "u", "l", "t" >>
S_get == << "g", "e", "t" >>
S_set == << "s", "e", "t" >>
S_Ok == << "O", "k" >>
S_Err == << "E", "r", "r" >>
S_main == << "m", "a", "i", "n" >>
S_print == << "p", "r", "i", "n", "t" >>
S_self == << "s", "e", "l", "f" >>
S_v == << "v" >>
ColonColonStr == << ":", ":" >>

\* The `?` of Rust: an Err is returned as it is, an Ok goes on to K.
Try(r, K(_)) == IF ~r.ok THEN r ELSE K(r)

RECURSIVE parse_type(_, _)
parse_type(ts, p) ==
    IF AtEnd(ts, p) THEN Err(<< "Expected type" >>)
    ELSE LET t == ts[p] IN
      CASE t.kind = "Ident" ->
             IF t.s = S_u64 THEN Ok(TypeU64, p + 1)
             ELSE IF t.s = S_int THEN Ok(TypeInt, p + 1)
             ELSE IF t.s = S_string THEN Ok(TypeString, p + 1)
             ELSE IF t.s = S_bool THEN Ok(TypeBool, p + 1)
             ELSE IF t.s = S_dynamic THEN Ok(TypeDynamic, p + 1)
             ELSE IF t.s = S_Option THEN
                 Try(expect(ts, p + 1, "LBracket"), LAMBDA a :
                 Try(parse_type(ts, a.p), LAMBDA inner :
                 Try(expect(ts, inner.p, "RBracket"), LAMBDA b :
                 Ok(TypeOption(inner.v), b.p))))
             ELSE IF t.s = S_Result THEN
                 Try(expect(ts, p + 1, "LBracket"), LAMBDA a :
                 Try(parse_type(ts, a.p), LAMBDA okty :
                 Try(expect(ts, okty.p, "Comma"), LAMBDA c :
                 Try(parse_type(ts, c.p), LAMBDA errty :
                 Try(expect(ts, errty.p, "RBracket"), LAMBDA b :
                 Ok(TypeResult(okty.v, errty.v), b.p))))))
             ELSE Ok(TypeNamed(t.s), p + 1)
        [] t.kind = "LParen" ->
             Try(expect(ts, p + 1, "RParen"), LAMBDA a : Ok(TypeUnit, a.p))
        [] t.kind = "Amp" ->
             LET is_mut == peek(ts, p + 1) = "Mut" IN
             Try(parse_type(ts, IF is_mut THEN p + 2 ELSE p + 1), LAMBDA inner :
             Ok(TypeRef(inner.v, is_mut), inner.p))
        [] OTHER -> Err(<< "Expected type, got {:?}", t.kind >>)

\* Parser::parse_literal
parse_literal(ts, p) ==
    IF AtEnd(ts, p) THEN Err(<< "Expected literal" >>)
    ELSE LET t == ts[p] IN
      CASE t.kind = "IntLiteral" -> Ok(LitInt(t.n), p + 1)
        [] t.kind = "StringLiteral" -> Ok(LitString(t.s), p + 1)
        [] t.kind = "True" -> Ok(LitBool(TRUE), p + 1)
        [] t.kind = "False" -> Ok(LitBool(FALSE), p + 1)
        [] OTHER -> Err(<< "Expected literal" >>)

\* `,` unless the closing token follows: the separator of the list loops.
CommaUnless(ts, p, closing) ==
    IF peek(ts, p) # closing THEN expect(ts, p, "Comma") ELSE Ok(<< >>, p)

\* The loop of the record pattern `{ name: type, ... }`.
RECURSIVE PatternFieldsLoop(_, _, _)
PatternFieldsLoop(ts, p, fields) ==
    IF peek(ts, p) = "RBrace" THEN Ok(fields, p)
    ELSE IF AtEnd(ts, p) THEN Err(<< "Expected field name" >>)
    ELSE IF ts[p].kind # "Ident" THEN Err(<< "Expected field name in pattern" >>)
    ELSE Try(expect(ts, p + 1, "Colon"), LAMBDA c :
         Try(parse_type(ts, c.p), LAMBDA ty :
         Try(CommaUnless(ts, ty.p, "RBrace"), LAMBDA k :
         PatternFieldsLoop(ts, k.p, Append(fields, << ts[p].s, ty.v >>)))))

\* Parser::parse_match_pattern
parse_match_pattern(ts, p) ==
    IF peek(ts, p) = "Underscore" THEN Ok(PatWildcard, p + 1)
    ELSE IF peek(ts, p) = "LBrace" THEN
        Try(PatternFieldsLoop(ts, p + 1, << >>), LAMBDA fs :
        Try(expect(ts, fs.p, "RBrace"), LAMBDA b :
        Ok(PatRecordDestruct(fs.v), b.p)))
    ELSE IF peek(ts, p) \in {"IntLiteral", "StringLiteral", "True", "False"} THEN
        Try(parse_literal(ts, p), LAMBDA lit : Ok(PatLiteral(lit.v), lit.p))
    ELSE Err(<< "Expected match pattern" >>)

RECURSIVE parse_expr_bp(_, _, _), parse_expr_infix(_, _, _, _), parse_prefix(_, _),
          parse_primary(_, _), parse_block(_, _), BlockLoop(_, _, _), parse_stmt(_, _),
          MatchArmsLoop(_, _, _), CallArgsLoop(_, _, _), PathSegLoop(_, _, _)

\* Parser::parse_expr
parse_expr(ts, p) == parse_expr_bp(ts, p, 0)

parse_expr_bp(ts, p, min_bp) ==
    Try(parse_prefix(ts, p), LAMBDA left : parse_expr_infix(ts, left.p, left.v, min_bp))

\* The loop of Parser::parse_expr_infix, one turn per call.
parse_expr_infix(ts, p, left, min_bp) ==
    LET bp == infix_binding_power(peek(ts, p)) IN
    IF ~bp.some THEN Ok(left, p)
    ELSE IF bp.left_bp < min_bp THEN Ok(left, p)
    ELSE Try(parse_expr_bp(ts, p + 1, bp.right_bp), LAMBDA right :
         parse_expr_infix(ts, right.p, ExprBinaryOp(bp.op, left, right.v), min_bp))

\* expect(LBrace), parse_block, expect(RBrace)
BracedBlock(ts, p) ==
    Try(expect(ts, p, "LBrace"), LAMBDA l :
    Try(parse_block(ts, l.p), LAMBDA b :
    Try(expect(ts, b.p, "RBrace"), LAMBDA r :
    Ok(b.v, r.p))))

\* The arms of a match, up to the closing brace; the comma after an arm is
\* optional.
MatchArmsLoop(ts, p, arms) ==
    IF peek(ts, p) = "RBrace" THEN Ok(arms, p)
    ELSE Try(parse_match_pattern(ts, p), LAMBDA pat :
         Try(expect(ts, pat.p, "FatArrow"), LAMBDA fa :
         Try(parse_expr(ts, fa.p), LAMBDA body :
         MatchArmsLoop(ts, IF peek(ts, body.p) = "Comma" THEN body.p + 1 ELSE body.p,
                       Append(arms, MatchArm(pat.v, body.v))))))

\* `else { block }` when an else follows the then block.
ElseBlock(ts, p) ==
    IF peek(ts, p) = "Else"
    THEN Try(BracedBlock(ts, p + 1), LAMBDA eb : Ok(Some(eb.v), eb.p))
    ELSE Ok(None, p)

parse_prefix(ts, p) ==
    LET k == peek(ts, p) IN
    CASE k = "If" ->
           Try(parse_expr(ts, p + 1), LAMBDA cond :
           Try(BracedBlock(ts, cond.p), LAMBDA tb :
           Try(ElseBlock(ts, tb.p), LAMBDA eb :
           Ok(ExprIf(cond.v, tb.v, eb.v), eb.p))))
      [] k = "Match" ->
           Try(parse_expr(ts, p + 1), LAMBDA scrutinee :
           Try(expect(ts, scrutinee.p, "LBrace"), LAMBDA l :
           Try(MatchArmsLoop(ts, l.p, << >>), LAMBDA arms :
           Try(expect(ts, arms.p, "RBrace"), LAMBDA r :
           Ok(ExprMatch(scrutinee.v, arms.v), r.p)))))
      [] k = "LBrace" ->
           Try(parse_block(ts, p + 1), LAMBDA b :
           Try(expect(ts, b.p, "RBrace"), LAMBDA r :
           Ok(ExprBlock(b.v), r.p)))
      [] k = "Minus" ->
           Try(parse_expr_bp(ts, p + 1, 7), LAMBDA e : Ok(ExprUnaryOp("Neg", e.v), e.p))
      [] k = "Not" ->
           Try(parse_expr_bp(ts, p + 1, 7), LAMBDA e : Ok(ExprUnaryOp("Not", e.v), e.p))
      [] k = "Amp" ->
           LET is_mut == peek(ts, p + 1) = "Mut"
               q == IF is_mut THEN p + 2 ELSE p + 1
           IN  IF AtEnd(ts, q) THEN Err(<< "Expected identifier after &" >>)
               ELSE IF ts[q].kind # "Ident"
                    THEN Err(<< "Expected variable name for borrow" >>)
                    ELSE Ok(ExprRef(is_mut, ts[q].s), q + 1)
      [] k = "Star" ->
           Try(parse_expr_bp(ts, p + 1, 7), LAMBDA e : Ok(ExprDeref(e.v), e.p))
      [] OTHER -> parse_primary(ts, p)

\* The `::segment` loop of an identifier: name grows by "::" and the segment.
PathSegLoop(ts, p, name) ==
    IF peek(ts, p) # "ColonColon" THEN Ok(name, p)
    ELSE IF AtEnd(ts, p + 1) THEN Err(<< "Expected identifier after ::" >>)
    ELSE IF ts[p + 1].kind # "Ident" THEN Err(<< "Expected identifier after ::" >>)
    ELSE PathSegLoop(ts, p + 2, name \o ColonColonStr \o ts[p + 1].s)

\* The arguments of a call, up to the closing parenthesis.
CallArgsLoop(ts, p, args) ==
    IF peek(ts, p) = "RParen" THEN Ok(args, p)
    ELSE Try(parse_expr(ts, p), LAMBDA a :
         Try(CommaUnless(ts, a.p, "RParen"), LAMBDA c :
         CallArgsLoop(ts, c.p, Append(args, a.v))))

parse_primary(ts, p) ==
    IF AtEnd(ts, p) THEN Err(<< "Expected expression" >>)
    ELSE LET t == ts[p] IN
      CASE t.kind = "IntLiteral" -> Ok(ExprLiteral(LitInt(t.n)), p + 1)
        [] t.kind = "StringLiteral" -> Ok(ExprLiteral(LitString(t.s)), p + 1)
        [] t.kind = "True" -> Ok(ExprLiteral(LitBool(TRUE)), p + 1)
        [] t.kind = "False" -> Ok(ExprLiteral(LitBool(FALSE)), p + 1)
        [] t.kind = "LParen" ->
             IF peek(ts, p + 1) = "RParen" THEN Ok(ExprLiteral(LitUnit), p + 2)
             ELSE Try(parse_expr(ts, p + 1), LAMBDA inner :
                  Try(expect(ts, inner.p, "RParen"), LAMBDA r :
                  Ok(inner.v, r.p)))
        [] t.kind = "Ident" ->
             Try(PathSegLoop(ts, p + 1, t.s), LAMBDA name :
             IF peek(ts, name.p) = "LParen"
             THEN Try(CallArgsLoop(ts, name.p + 1, << >>), LAMBDA args :
                  Try(expect(ts, args.p, "RParen"), LAMBDA r :
                  Ok(ExprCall(name.v, args.v), r.p)))
             ELSE Ok(ExprIdent(name.v), name.p))
        [] t.kind \in {"Ok", "Err"} ->
             Try(expect(ts, p + 1, "LParen"), LAMBDA l :
             Try(parse_expr(ts, l.p), LAMBDA arg :
             Try(expect(ts, arg.p, "RParen"), LAMBDA r :
             Ok(ExprCall(IF t.kind = "Ok" THEN S_Ok ELSE S_Err, << arg.v >>), r.p))))
        [] OTHER -> Err(<< "Expected expression, got {:?}", t.kind >>)

\* A parser in which the last statement of a block needs no `;`.
expect_semicolon_after_stmt_or_brace(ts, p) ==
    IF peek(ts, p) = "Semicolon" THEN Ok(<< >>, p + 1)
    ELSE IF peek(ts, p) = "RBrace" THEN Ok(<< >>, p)
    ELSE Err(<< "Expected ';' after statement" >>)

\* Parser::expect_semicolon_after_stmt
expect_semicolon_after_stmt(ts, p) ==
    IF peek(ts, p) = "Semicolon" THEN Ok(<< >>, p + 1)
    ELSE Err(<< "Expected ';' after statement" >>)

\* The `: type` of a let, when a colon follows the name.
LetAnnot(ts, p) ==
    IF peek(ts, p) = "Colon"
    THEN Try(parse_type(ts, p + 1), LAMBDA ty : Ok(Some(ty.v), ty.p))
    ELSE Ok(None, p)

\* The value of a return: none before `}` or `;`.
ReturnValue(ts, p) ==
    IF peek(ts, p) \in {"RBrace", "Semicolon"} THEN Ok(None, p)
    ELSE Try(parse_expr(ts, p), LAMBDA e : Ok(Some(e.v), e.p))

\* The statement `target = value;` once both sides and the `;` are parsed.
AssignTo(target, value, p) ==
    IF target.tag = "Ident" THEN Ok(StmtAssign(target.name, value), p)
    ELSE IF target.tag = "Deref" /\ target.expr.tag = "Ident"
         THEN Ok(StmtAssignDeref(target.expr.name, value), p)
         ELSE Err(<< "Assignment target must be a variable or *variable" >>)

parse_stmt(ts, p) ==
    IF peek(ts, p) = "Let" THEN
        LET mutability == peek(ts, p + 1) = "Mut" IN
        Try(NextIdent(ts, IF mutability THEN p + 2 ELSE p + 1, "Expected binding name"),
            LAMBDA name :
        Try(LetAnnot(ts, name.p), LAMBDA annot :
        Try(expect(ts, annot.p, "Assign"), LAMBDA a :
        Try(parse_expr(ts, a.p), LAMBDA init :
        Try(expect_semicolon_after_stmt(ts, init.p), LAMBDA semi :
        Ok(StmtLet(name.v, mutability, annot.v, init.v), semi.p))))))
    ELSE IF peek(ts, p) = "Return" THEN
        Try(ReturnValue(ts, p + 1), LAMBDA value :
        Try(expect_semicolon_after_stmt(ts, value.p), LAMBDA semi :
        Ok(StmtReturn(value.v), semi.p)))
    ELSE
        Try(parse_expr(ts, p), LAMBDA expr :
        IF peek(ts, expr.p) = "Assign" THEN
            Try(parse_expr(ts, expr.p + 1), LAMBDA value :
            Try(expect_semicolon_after_stmt(ts, value.p), LAMBDA semi :
            AssignTo(expr.v, value.v, semi.p)))
        ELSE Try(expect_semicolon_after_stmt(ts, expr.p), LAMBDA semi :
             Ok(StmtExpr(expr.v), semi.p)))

\* The loop of Parser::parse_block: statements up to `}` or the end.
BlockLoop(ts, p, stmts) ==
    IF peek(ts, p) \in {"RBrace", "Eof"} THEN Ok(Block(stmts), p)
    ELSE Try(parse_stmt(ts, p), LAMBDA st : BlockLoop(ts, st.p, Append(stmts, st.v)))

parse_block(ts, p) == BlockLoop(ts, p, << >>)

\* The parameter loop of Parser::parse_fn, up to the closing parenthesis.
RECURSIVE ParamsLoop(_, _, _)
ParamsLoop(ts, p, params) ==
    IF peek(ts, p) = "RParen" THEN Ok(params, p)
    ELSE Try(NextIdent(ts, p, "Expected param name"), LAMBDA name :
         Try(expect(ts, name.p, "Colon"), LAMBDA c :
         Try(parse_type(ts, c.p), LAMBDA ty :
         Try(CommaUnless(ts, ty.p, "RParen"), LAMBDA k :
         ParamsLoop(ts, k.p, Append(params, Param(name.v, ty.v)))))))

\* Parser::parse_fn
parse_fn(ts, p) ==
    LET pub_vis == peek(ts, p) = "Pub" IN
    Try(expect(ts, IF pub_vis THEN p + 1 ELSE p, "Fn"), LAMBDA f :
    Try(NextIdent(ts, f.p, "Expected function name"), LAMBDA name :
    Try(expect(ts, name.p, "LParen"), LAMBDA l :
    Try(ParamsLoop(ts, l.p, << >>), LAMBDA params :
    Try(expect(ts, params.p, "RParen"), LAMBDA r :
    Try(expect(ts, r.p, "Arrow"), LAMBDA a :
    Try(parse_type(ts, a.p), LAMBDA return_type :
    Try(BracedBlock(ts, return_type.p), LAMBDA body :
    Ok(FnDecl(name.v, params.v, return_type.v, body.v, pub_vis), body.p)))))))))

\* The loop of Parser::parse_field_attrs: get and set, separated by commas.
RECURSIVE AttrsLoop(_, _, _, _)
AttrsLoop(ts, p, get, set) ==
    IF AtEnd(ts, p) THEN Err(<< "Expected get or set" >>)
    ELSE IF ts[p].kind # "Ident" THEN Err(<< "Expected get or set" >>)
    ELSE IF ts[p].s # S_get /\ ts[p].s # S_set
         THEN Err(<< "Expected get or set, got {}", ts[p].s >>)
    ELSE LET g == get \/ ts[p].s = S_get
             st == set \/ (ts[p].s # S_get /\ ts[p].s = S_set)
         IN  IF peek(ts, p + 1) # "Comma" THEN Ok(FieldAttrs(g, st), p + 1)
             ELSE AttrsLoop(ts, p + 2, g, st)

\* Parser::parse_field_attrs
parse_field_attrs(ts, p) ==
    Try(expect(ts, p, "At"), LAMBDA a :
    Try(expect(ts, a.p, "Pub"), LAMBDA b :
    Try(expect(ts, b.p, "LParen"), LAMBDA l :
    Try(AttrsLoop(ts, l.p, FALSE, FALSE), LAMBDA attrs :
    Try(expect(ts, attrs.p, "RParen"), LAMBDA r :
    Ok(attrs.v, r.p))))))

\* The attributes of a struct field, when `@` follows its type.
FieldAttrsAt(ts, p) ==
    IF peek(ts, p) = "At"
    THEN Try(parse_field_attrs(ts, p), LAMBDA attrs : Ok(Some(attrs.v), attrs.p))
    ELSE Ok(None, p)

\* Parser::parse_struct_field
parse_struct_field(ts, p) ==
    Try(NextIdent(ts, p, "Expected field name"), LAMBDA name :
    Try(expect(ts, name.p, "Colon"), LAMBDA c :
    Try(parse_type(ts, c.p), LAMBDA ty :
    Try(FieldAttrsAt(ts, ty.p), LAMBDA attrs :
    Ok(StructField(name.v, ty.v, attrs.v), attrs.p)))))

\* The field loop of Parser::parse_struct; the comma between fields is optional.
RECURSIVE StructFieldsLoop(_, _, _)
StructFieldsLoop(ts, p, fields) ==
    IF peek(ts, p) = "RBrace" THEN Ok(fields, p)
    ELSE Try(parse_struct_field(ts, p), LAMBDA fld :
         StructFieldsLoop(ts,
                          IF peek(ts, fld.p) # "RBrace" /\ peek(ts, fld.p) = "Comma"
                          THEN fld.p + 1 ELSE fld.p,
                          Append(fields, fld.v)))

\* Parser::parse_struct
parse_struct(ts, p) ==
    Try(expect(ts, p, "Struct"), LAMBDA st :
    Try(NextIdent(ts, st.p, "Expected struct name"), LAMBDA name :
    Try(expect(ts, name.p, "LBrace"), LAMBDA l :
    Try(StructFieldsLoop(ts, l.p, << >>), LAMBDA fields :
    Try(expect(ts, fields.p, "RBrace"), LAMBDA r :
    Ok(StructDecl(name.v, fields.v), r.p))))))

\* `as alias` after an import; strict is the form that rejects a non-identifier.
ImportAlias(ts, p, strict) ==
    IF peek(ts, p) # "As" THEN Ok(None, p)
    ELSE IF AtEnd(ts, p + 1)
         THEN Err(<< IF strict THEN "Expected alias name" ELSE "Expected alias" >>)
    ELSE IF ts[p + 1].kind = "Ident" THEN Ok(Some(ts[p + 1].s), p + 2)
    ELSE IF strict THEN Err(<< "Expected alias name" >>)
    ELSE Ok(None, p + 2)

\* The names of `{ a, b }` in an import, up to the closing brace.
RECURSIVE ImportNamesLoop(_, _, _)
ImportNamesLoop(ts, p, names) ==
    IF peek(ts, p) = "RBrace" THEN Ok(names, p)
    ELSE Try(NextIdent(ts, p, "Expected item name"), LAMBDA t :
         Try(CommaUnless(ts, t.p, "RBrace"), LAMBDA k :
         ImportNamesLoop(ts, k.p, Append(names, t.v))))

\* The `{ names }` of an import, when a brace follows the path.
ImportItems(ts, p) ==
    IF peek(ts, p) = "LBrace"
    THEN Try(ImportNamesLoop(ts, p + 1, << >>), LAMBDA names :
         Try(expect(ts, names.p, "RBrace"), LAMBDA r :
         Ok(Some(names.v), r.p)))
    ELSE Ok(None, p)

\* What follows the path of an import: `{ names }` and `as alias`.
ImportTail(ts, p, path) ==
    Try(ImportItems(ts, p), LAMBDA items :
    Try(ImportAlias(ts, items.p, TRUE), LAMBDA alias :
    Ok(ImportDecl(path, alias.v, items.v), alias.p)))

\* The `::` loop of Parser::parse_import.
RECURSIVE ImportPathLoop(_, _, _)
ImportPathLoop(ts, p, path) ==
    IF peek(ts, p) # "ColonColon" THEN ImportTail(ts, p, path)
    ELSE IF peek(ts, p + 1) = "LBrace" THEN ImportTail(ts, p + 1, path)
    ELSE IF AtEnd(ts, p + 1) THEN Err(<< "Expected path segment or item" >>)
    ELSE IF ts[p + 1].kind # "Ident" THEN Err(<< "Expected path segment" >>)
    ELSE IF peek(ts, p + 2) = "ColonColon"
         THEN ImportPathLoop(ts, p + 2, Append(path, ts[p + 1].s))
         ELSE Try(ImportAlias(ts, p + 2, FALSE), LAMBDA alias :
              Ok(ImportDecl(path, alias.v, Some(<< ts[p + 1].s >>)), alias.p))

\* Parser::parse_import
parse_import(ts, p) ==
    Try(expect(ts, p, "Import"), LAMBDA i :
    Try(NextIdent(ts, i.p, "Expected module path"), LAMBDA first :
    ImportPathLoop(ts, first.p, << first.v >>)))

\* The loop of Parser::parse_root: items up to the end of the tokens.
RECURSIVE RootLoop(_, _, _)
RootLoop(ts, p, items) ==
    LET k == peek(ts, p) IN
    IF k = "Eof" THEN Ok(Root(items), p)
    ELSE IF k = "Import" THEN
        Try(parse_import(ts, p), LAMBDA r : RootLoop(ts, r.p, Append(items, ItemImport(r.v))))
    ELSE IF k = "Struct" THEN
        Try(parse_struct(ts, p), LAMBDA r : RootLoop(ts, r.p, Append(items, ItemStruct(r.v))))
    ELSE IF k \in {"Pub", "Fn"} THEN
        Try(parse_fn(ts, p), LAMBDA r : RootLoop(ts, r.p, Append(items, ItemFn(r.v))))
    ELSE IF AtEnd(ts, p)
         THEN Panic(<< "called Option::unwrap() on a None value" >>)
         ELSE Err(<< "Unexpected token at root: {:?}", k >>)

parse_root(ts) == RootLoop(ts, 1, << >>)

\* ---------------------------------------------------------------------------
\* Desugaring (knox_compiler/src/desugar.rs)
\* ---------------------------------------------------------------------------

LowerChars == << "a", "b", "c", "d", "e", "f", "g", "h", "i", "j", "k", "l", "m",
                 "n", "o", "p", "q", "r", "s", "t", "u", "v", "w", "x", "y", "z" >>
UpperChars == << "A", "B", "C", "D", "E", "F", "G", "H", "I", "J", "K", "L", "M",
                 "N", "O", "P", "Q", "R", "S", "T", "U", "V", "W", "X", "Y", "Z" >>

\* char::to_ascii_uppercase
to_ascii_uppercase(c) ==
    IF \E i \in 1..Len(LowerChars) : LowerChars[i] = c
    THEN UpperChars[CHOOSE i \in 1..Len(LowerChars) : LowerChars[i] = c]
    ELSE c

\* The loop of setter_name over the characters of the field name.
RECURSIVE SetterNameLoop(_, _, _, _)
SetterNameLoop(field_name, i, acc, cap_next) ==
    IF i > Len(field_name) THEN acc
    ELSE IF field_name[i] = "_" THEN SetterNameLoop(field_name, i + 1, acc, TRUE)
    ELSE IF cap_next
         THEN SetterNameLoop(field_name, i + 1,
                             Append(acc, to_ascii_uppercase(field_name[i])), FALSE)
    ELSE SetterNameLoop(field_name, i + 1, Append(acc, field_name[i]), FALSE)

setter_name(field_name) == SetterNameLoop(field_name, 1, S_set, TRUE)

generate_getter(sd, field) ==
    FnDecl(field.name, << Param(S_self, TypeNamed(sd.name)) >>, field.ty,
           Block(<< StmtReturn(Some(ExprFieldAccess(ExprIdent(S_self), field.name))) >>),
           TRUE)

generate_setter(sd, field) ==
    FnDecl(setter_name(field.name),
           << Param(S_self, TypeNamed(sd.name)), Param(S_v, field.ty) >>, TypeUnit,
           Block(<< StmtReturn(Some(ExprLiteral(LitUnit))) >>), TRUE)

RECURSIVE AccessorsFrom(_, _)
AccessorsFrom(sd, i) ==
    IF i > Len(sd.fields) THEN << >>
    ELSE LET field == sd.fields[i] IN
         IF field.attrs = None THEN AccessorsFrom(sd, i + 1)
         ELSE LET attrs == field.attrs[1] IN
              (IF attrs.get THEN << generate_getter(sd, field) >> ELSE << >>)
              \o (IF attrs.set THEN << generate_setter(sd, field) >> ELSE << >>)
              \o AccessorsFrom(sd, i + 1)

generate_accessors(sd) == AccessorsFrom(sd, 1)

RECURSIVE WrapFns(_, _)
WrapFns(fns, i) ==
    IF i > Len(fns) THEN << >> ELSE << ItemFn(fns[i]) >> \o WrapFns(fns, i + 1)

RECURSIVE DesugarItems(_, _)
DesugarItems(items, i) ==
    IF i > Len(items) THEN << >>
    ELSE IF items[i].tag = "Struct"
         THEN << items[i] >> \o WrapFns(generate_accessors(items[i].decl), 1)
              \o DesugarItems(items, i + 1)
    ELSE << items[i] >> \o DesugarItems(items, i + 1)

\* desugar_root: the root it leaves in place of the one it was given.
desugar_root(r) == Root(DesugarItems(r.items, 1))

\* ---------------------------------------------------------------------------
\* Type checker (knox_compiler/src/typecheck.rs)
\* ---------------------------------------------------------------------------

\* Diagnostic::error; the message is the format string followed by its arguments.
DiagnosticError(msg) == [level |-> "Error", message |-> msg]

\* Result<Type, ()> together with the environment and self.diagnostics as the
\* call leaves them.
TcOk(ty, env, d) == [ok |-> TRUE, ty |-> ty, env |-> env, d |-> d]
TcErr(env, d) == [ok |-> FALSE, ty |-> TypeUnit, env |-> env, d |-> d]

\* An Err(()) that leaves self.diagnostics as it found it.
TcFail_silent(env, d, msg) == TcErr(env, d)

\* self.diagnostics.push(Diagnostic::error(msg, ..)); return Err(())
TcFail(env, d, msg) == TcErr(env, Append(d, DiagnosticError(msg)))

\* HashMap::new, insert, contains_key
EmptyMap == [x \in {} |-> x]
MapInsert(map, k, v) == [x \in DOMAIN map \cup {k} |-> IF x = k THEN v ELSE map[x]]
MapHas(map, k) == k \in DOMAIN map

\* TypeChecker: the two tables check_root fills in.
TypeChecker(functions, structs) == [functions |-> functions, structs |-> structs]

type_of_literal(lit) ==
    CASE lit.tag = "Int" -> TypeInt
      [] lit.tag = "String" -> TypeString
      [] lit.tag = "Bool" -> TypeBool
      [] OTHER -> TypeUnit

check_type_equals(expected, actual, env, d) ==
    IF expected # actual
    THEN TcFail(env, d, << "Type mismatch: expected {:?}, got {:?}", expected, actual >>)
    ELSE TcOk(TypeUnit, env, d)

IsBoolPattern(pattern, b) ==
    pattern.tag = "Literal" /\ pattern.lit.tag = "Bool" /\ pattern.lit.b = b

\* check_match_exhaustive with one Bool literal taken for both.
check_match_exhaustive_either(scrut_ty, arms, env, d) ==
    LET has_wildcard == \E i \in 1..Len(arms) : arms[i].pattern.tag = "Wildcard"
        has_true == \E i \in 1..Len(arms) : IsBoolPattern(arms[i].pattern, TRUE)
        has_false == \E i \in 1..Len(arms) : IsBoolPattern(arms[i].pattern, FALSE)
    IN  IF has_wildcard THEN TcOk(TypeUnit, env, d)
        ELSE IF scrut_ty = TypeBool /\ (has_true \/ has_false) THEN TcOk(TypeUnit, env, d)
        ELSE TcFail(env, d,
                    << "Match must be exhaustive (add _ arm or cover all cases)" >>)

check_match_exhaustive(scrut_ty, arms, env, d) ==
    LET has_wildcard == \E i \in 1..Len(arms) : arms[i].pattern.tag = "Wildcard"
        has_true == \E i \in 1..Len(arms) : IsBoolPattern(arms[i].pattern, TRUE)
        has_false == \E i \in 1..Len(arms) : IsBoolPattern(arms[i].pattern, FALSE)
    IN  IF has_wildcard THEN TcOk(TypeUnit, env, d)
        ELSE IF scrut_ty = TypeBool /\ has_true /\ has_false THEN TcOk(TypeUnit, env, d)
        ELSE TcFail(env, d,
                    << "Match must be exhaustive (add _ arm or cover all cases)" >>)

\* Position of the first field called `field`, 0 when there is none.
FindField(fields, field) ==
    IF \E i \in 1..Len(fields) : fields[i].name = field
    THEN CHOOSE i \in 1..Len(fields) :
            fields[i].name = field /\ \A j \in 1..(i - 1) : fields[j].name # field
    ELSE 0

RECURSIVE check_expr(_, _, _, _)
RECURSIVE check_stmt(_, _, _, _)
RECURSIVE CheckStmtsFrom(_, _, _, _, _)
RECURSIVE CheckArgsFrom(_, _, _, _, _, _)
RECURSIVE CheckArmsFrom(_, _, _, _, _, _)

\* The loop of check_block from statement i on.
CheckStmtsFrom(tc, stmts, i, env, d) ==
    IF i > Len(stmts) THEN TcOk(TypeUnit, env, d)
    ELSE Try(check_stmt(tc, stmts[i], env, d), LAMBDA r :
         CheckStmtsFrom(tc, stmts, i + 1, r.env, r.d))

check_block(tc, block, env, d) == CheckStmtsFrom(tc, block.stmts, 1, env, d)

\* The zip loop of a call: each argument is checked, then compared with its
\* parameter's type.
CheckArgsFrom(tc, params, args, i, env, d) ==
    IF i > Len(params) \/ i > Len(args) THEN TcOk(TypeUnit, env, d)
    ELSE Try(check_expr(tc, args[i], env, d), LAMBDA aty :
         Try(check_type_equals(params[i].ty, aty.ty, aty.env, aty.d), LAMBDA eq :
         CheckArgsFrom(tc, params, args, i + 1, eq.env, eq.d)))

\* An arm's type against arm_ty, which is None until the first arm is checked.
ArmType(arm_ty, t) ==
    IF arm_ty # None THEN check_type_equals(arm_ty[1], t.ty, t.env, t.d)
    ELSE TcOk(TypeUnit, t.env, t.d)

\* The arm loop of a match. The result's ty is arm_ty.unwrap_or(Type::Unit).
CheckArmsFrom(tc, arms, i, arm_ty, env, d) ==
    IF i > Len(arms)
    THEN TcOk(IF arm_ty = None THEN TypeUnit ELSE arm_ty[1], env, d)
    ELSE Try(check_expr(tc, arms[i].body, env, d), LAMBDA t :
         Try(ArmType(arm_ty, t), LAMBDA eq :
         CheckArmsFrom(tc, arms, i + 1, IF arm_ty # None THEN arm_ty ELSE Some(t.ty),
                       eq.env, eq.d)))

\* A let once its initialiser has its type.
CheckLet(stmt, init_ty) ==
    IF stmt.type_annot # None
    THEN Try(check_type_equals(stmt.type_annot[1], init_ty.ty, init_ty.env, init_ty.d),
             LAMBDA eq :
             TcOk(TypeUnit,
                  MapInsert(eq.env, stmt.name, << stmt.type_annot[1], stmt.mutability >>),
                  eq.d))
    ELSE TcOk(TypeUnit,
              MapInsert(init_ty.env, stmt.name, << init_ty.ty, stmt.mutability >>),
              init_ty.d)

check_stmt(tc, stmt, env, d) ==
    CASE stmt.tag = "Let" ->
           Try(check_expr(tc, stmt.init, env, d), LAMBDA init_ty : CheckLet(stmt, init_ty))
      [] stmt.tag = "AssignDeref" ->
           IF ~MapHas(env, stmt.name)
           THEN TcFail(env, d, << "Unknown variable: {}", stmt.name >>)
           ELSE IF ~(env[stmt.name][1].tag = "Ref" /\ env[stmt.name][1].is_mut)
           THEN TcFail(env, d, << "Assign through * requires &mut reference" >>)
           ELSE Try(check_expr(tc, stmt.expr, env, d), LAMBDA expr_ty :
                check_type_equals(env[stmt.name][1].inner, expr_ty.ty,
                                  expr_ty.env, expr_ty.d))
      [] stmt.tag = "Assign" ->
           IF ~MapHas(env, stmt.name)
           THEN TcFail(env, d, << "Unknown variable: {}", stmt.name >>)
           ELSE IF ~env[stmt.name][2]
           THEN TcFail(env, d, << "Cannot assign to immutable variable" >>)
           ELSE Try(check_expr(tc, stmt.expr, env, d), LAMBDA expr_ty :
                check_type_equals(env[stmt.name][1], expr_ty.ty, expr_ty.env, expr_ty.d))
      [] stmt.tag = "Expr" ->
           Try(check_expr(tc, stmt.expr, env, d), LAMBDA e : TcOk(TypeUnit, e.env, e.d))
      [] stmt.tag = "Return" ->
           IF stmt.value # None
           THEN Try(check_expr(tc, stmt.value[1], env, d), LAMBDA e :
                TcOk(TypeUnit, e.env, e.d))
           ELSE TcOk(TypeUnit, env, d)

\* The operator arm of a BinaryOp once both operands have their types.
CheckBinaryOp(op, lt, rt, env, d) ==
    CASE op = "Add" ->
           IF lt = TypeInt /\ rt = TypeInt THEN TcOk(TypeInt, env, d)
           ELSE IF lt = TypeU64 /\ rt = TypeU64 THEN TcOk(TypeU64, env, d)
           ELSE IF lt = TypeString /\ rt = TypeString THEN TcOk(TypeString, env, d)
           ELSE TcFail(env, d,
                       << "Operator + requires int+int, u64+u64, or string+string" >>)
      [] op \in {"Sub", "Mul", "Div", "Rem"} ->
           IF lt = TypeInt /\ rt = TypeInt THEN TcOk(TypeInt, env, d)
           ELSE IF lt = TypeU64 /\ rt = TypeU64 THEN TcOk(TypeU64, env, d)
           ELSE TcFail(env, d,
                       << "Operator {:?} requires both operands int or both u64", op >>)
      [] op \in {"Eq", "Ne", "Lt", "Le", "Gt", "Ge"} ->
           Try(check_type_equals(lt, rt, env, d), LAMBDA eq : TcOk(TypeBool, env, d))
      [] op \in {"And", "Or"} ->
           Try(check_type_equals(TypeBool, lt, env, d), LAMBDA l :
           Try(check_type_equals(TypeBool, rt, env, d), LAMBDA r :
           TcOk(TypeBool, env, d)))

\* The print arm of a call.
CheckPrint(tc, args, env, d) ==
    IF Len(args) # 1
    THEN TcFail(env, d, << "print expects exactly one argument (string)" >>)
    ELSE Try(check_expr(tc, args[1], env, d), LAMBDA arg_ty :
         IF arg_ty.ty # TypeString
         THEN TcFail(arg_ty.env, arg_ty.d, << "print argument must be string" >>)
         ELSE TcOk(TypeUnit, arg_ty.env, arg_ty.d))

\* The arm of a call of a declared function f.
CheckCall(tc, f, args, env, d) ==
    IF Len(f.params) # Len(args)
    THEN TcFail(env, d, << "Expected {} arguments, got {}", Len(f.params), Len(args) >>)
    ELSE Try(CheckArgsFrom(tc, f.params, args, 1, env, d), LAMBDA r :
         TcOk(f.return_type, r.env, r.d))

\* The field lookup of a field access once the receiver has its type.
CheckField(tc, field, rec_ty) ==
    IF rec_ty.ty.tag # "Named"
    THEN TcFail(rec_ty.env, rec_ty.d, << "Field access only on struct types" >>)
    ELSE IF ~MapHas(tc.structs, rec_ty.ty.name)
    THEN TcFail(rec_ty.env, rec_ty.d, << "Unknown type: {}", rec_ty.ty.name >>)
    ELSE IF FindField(tc.structs[rec_ty.ty.name].fields, field) = 0
    THEN TcFail(rec_ty.env, rec_ty.d,
                << "Unknown field: {} on {}", field, rec_ty.ty.name >>)
    ELSE TcOk(tc.structs[rec_ty.ty.name].fields[
                  FindField(tc.structs[rec_ty.ty.name].fields, field)].ty,
              rec_ty.env, rec_ty.d)

\* The else block of an if, when there is one.
CheckElse(tc, else_block, env, d) ==
    IF else_block # None THEN check_block(tc, else_block[1], env, d)
    ELSE TcOk(TypeUnit, env, d)

\* The value of a block expression: its last statement when that is an
\* expression, checked once more in the block's environment.
CheckBlockValue(tc, stmts, env, d) ==
    IF Len(stmts) > 0 /\ stmts[Len(stmts)].tag = "Expr"
    THEN check_expr(tc, stmts[Len(stmts)].expr, env, d)
    ELSE TcOk(TypeUnit, env, d)

\* block_env is a clone: the caller's env is what the call leaves.
KeepEnv(r, env) == [r EXCEPT !.env = env]

check_expr(tc, expr, env, d) ==
    CASE expr.tag = "Literal" -> TcOk(type_of_literal(expr.lit), env, d)
      [] expr.tag = "Ident" ->
           IF MapHas(env, expr.name) THEN TcOk(env[expr.name][1], env, d)
           ELSE TcFail(env, d, << "Unknown variable: {}", expr.name >>)
      [] expr.tag = "FieldAccess" ->
           Try(check_expr(tc, expr.receiver, env, d), LAMBDA rec_ty :
           CheckField(tc, expr.field, rec_ty))
      [] expr.tag = "Call" ->
           IF expr.callee = S_print THEN CheckPrint(tc, expr.args, env, d)
           ELSE IF MapHas(tc.functions, expr.callee)
           THEN CheckCall(tc, tc.functions[expr.callee], expr.args, env, d)
           ELSE TcFail(env, d, << "Unknown function: {}", expr.callee >>)
      [] expr.tag = "If" ->
           Try(check_expr(tc, expr.cond, env, d), LAMBDA c :
           Try(check_block(tc, expr.then_block, c.env, c.d), LAMBDA tb :
           Try(CheckElse(tc, expr.else_block, tb.env, tb.d), LAMBDA eb :
           TcOk(TypeUnit, eb.env, eb.d))))
      [] expr.tag = "Match" ->
           Try(check_expr(tc, expr.scrutinee, env, d), LAMBDA scrut_ty :
           Try(CheckArmsFrom(tc, expr.arms, 1, None, scrut_ty.env, scrut_ty.d),
               LAMBDA result_ty :
           Try(check_match_exhaustive(scrut_ty.ty, expr.arms, result_ty.env, result_ty.d),
               LAMBDA ex :
           TcOk(result_ty.ty, ex.env, ex.d))))
      [] expr.tag = "Block" ->
           KeepEnv(Try(check_block(tc, expr.block, env, d), LAMBDA b :
                       CheckBlockValue(tc, expr.block.stmts, b.env, b.d)),
                   env)
      [] expr.tag = "BinaryOp" ->
           Try(check_expr(tc, expr.left, env, d), LAMBDA lt :
           Try(check_expr(tc, expr.right, lt.env, lt.d), LAMBDA rt :
           CheckBinaryOp(expr.op, lt.ty, rt.ty, rt.env, rt.d)))
      [] expr.tag = "UnaryOp" ->
           Try(check_expr(tc, expr.expr, env, d), LAMBDA t :
           IF expr.op = "Neg"
           THEN IF t.ty = TypeInt \/ t.ty = TypeU64 THEN t
                ELSE TcFail(t.env, t.d, << "Unary - requires int or u64" >>)
           ELSE Try(check_type_equals(TypeBool, t.ty, t.env, t.d), LAMBDA eq :
                TcOk(TypeBool, eq.env, eq.d)))
      [] expr.tag = "Ref" ->
           IF ~MapHas(env, expr.target)
           THEN TcFail(env, d, << "Unknown variable: {}", expr.target >>)
           ELSE IF expr.is_mut /\ ~env[expr.target][2]
                THEN TcFail(env, d, << "Cannot take &mut of immutable variable" >>)
                ELSE TcOk(TypeRef(env[expr.target][1], expr.is_mut), env, d)
      [] expr.tag = "Deref" ->
           Try(check_expr(tc, expr.expr, env, d), LAMBDA ref_ty :
           IF ref_ty.ty.tag = "Ref" THEN TcOk(ref_ty.ty.inner, ref_ty.env, ref_ty.d)
           ELSE TcFail(ref_ty.env, ref_ty.d, << "Deref * only applies to &T or &mut T" >>))

\* The environment check_fn starts from: each parameter, immutable; a later
\* parameter of the same name replaces an earlier one.
ParamEnv(params) ==
    [x \in {params[i].name : i \in 1..Len(params)} |->
        << params[CHOOSE j \in 1..Len(params) :
                     params[j].name = x
                     /\ \A k \in (j + 1)..Len(params) : params[k].name # x].ty,
           FALSE >>]

\* check_fn: only main's return type is compared, with Unit.
check_fn(tc, f, d) ==
    Try(check_block(tc, f.body, ParamEnv(f.params), d), LAMBDA b :
    IF f.name = S_main THEN check_type_equals(f.return_type, TypeUnit, b.env, b.d)
    ELSE TcOk(TypeUnit, b.env, b.d))

\* The first loop of check_root: later declarations replace earlier ones of the
\* same name.
RECURSIVE CollectItems(_, _, _)
CollectItems(items, i, tc) ==
    IF i > Len(items) THEN tc
    ELSE IF items[i].tag = "Fn"
         THEN CollectItems(items, i + 1,
                  TypeChecker(MapInsert(tc.functions, items[i].decl.name, items[i].decl),
                              tc.structs))
    ELSE IF items[i].tag = "Struct"
         THEN CollectItems(items, i + 1,
                  TypeChecker(tc.functions,
                              MapInsert(tc.structs, items[i].decl.name, items[i].decl)))
    ELSE CollectItems(items, i + 1, tc)

\* The second loop of check_root: check_fn on each function, `?` on its result.
RECURSIVE CheckFnsFrom(_, _, _, _)
CheckFnsFrom(tc, items, i, d) ==
    IF i > Len(items) THEN TcOk(TypeUnit, EmptyMap, d)
    ELSE IF items[i].tag = "Fn"
         THEN Try(check_fn(tc, items[i].decl, d), LAMBDA r :
              CheckFnsFrom(tc, items, i + 1, r.d))
    ELSE CheckFnsFrom(tc, items, i + 1, d)

\* What follows the two loops of check_root: the search for main, then for an
\* Error among the diagnostics.
CheckMain(tc, d) ==
    IF ~MapHas(tc.functions, S_main)
    THEN TcFail(EmptyMap, d,
                << "No main function found. Expected fn main() -> () { ... }" >>)
    ELSE IF \E i \in 1..Len(d) : d[i].level = "Error" THEN TcErr(EmptyMap, d)
    ELSE TcOk(TypeUnit, EmptyMap, d)

CheckItems(tc, items) ==
    Try(CheckFnsFrom(tc, items, 1, << >>), LAMBDA fns : CheckMain(tc, fns.d))

\* check_root on a fresh TypeChecker: ok is the Result, d is self.diagnostics.
check_root(r) == CheckItems(CollectItems(r.items, 1, TypeChecker(EmptyMap, EmptyMap)), r.items)

(***************************************************************************)
(* compile: tokens -> parse_root -> desugar_root -> check_root.            *)
(*                                                                         *)
(* A run starts from the token vector collect_tokens hands the parser,     *)
(* which ends with the Eof token.  The token kinds are the ones parser.rs  *)
(* matches on.                                                             *)
(***************************************************************************)
\* A function body holds at most MaxStmts statements.
MaxStmts == 3
\* A match holds at most MaxArms arms.
MaxArms == 3
\* A module holds at most MaxItems function declarations.
MaxItems == 2
\* A call of print holds at most MaxCallArgs arguments.
MaxCallArgs == 2

S_a == << "a" >>
S_b == << "b" >>
S_c == << "c" >>
S_s == << "s" >>
S_t == << "t" >>
S_x == << "x" >>
S_y == << "y" >>
S_P == << "P" >>
S_helper == << "h", "e", "l", "p", "e", "r" >>
S_user_id == << "u", "s", "e", "r", "_", "i", "d" >>

\* Lexer::collect_tokens pushes the Eof token last.
WithEof(ts) == Append(ts, T("Eof"))

UnitTokens == << T("LParen"), T("RParen") >>

\* fn name(params) -> ret { body }
FnTokens(name, params, ret, body) ==
    << T("Fn"), TIdent(name), T("LParen") >> \o params
    \o << T("RParen"), T("Arrow") >> \o ret
    \o << T("LBrace") >> \o body \o << T("RBrace") >>

\* fn main() -> () { body }
MainTokens(body) == FnTokens(S_main, << >>, UnitTokens, body)

\* All sequences over S of length lo..hi.
SeqsBetween(S, lo, hi) == UNION {[1..n -> S] : n \in lo..hi}

RECURSIVE FlatMap(_, _, _)
FlatMap(Op(_), xs, i) ==
    IF i > Len(xs) THEN << >> ELSE Op(xs[i]) \o FlatMap(Op, xs, i + 1)

\* --- a op1 b op2 c; ---
OpKinds == {"OrOr", "AndAnd", "Eq", "Ne", "Lt", "Le", "Gt", "Ge",
            "Plus", "Minus", "Star", "Slash", "Percent"}

ExprTokens(op1, op2) ==
    WithEof(MainTokens(<< TIdent(S_a), T(op1), TIdent(S_b), T(op2), TIdent(S_c),
                          T("Semicolon") >>))

ExprInputs == {ExprTokens(op1, op2) : op1 \in OpKinds, op2 \in OpKinds}

\* --- statements with and without their `;` ---
PrintS == << TIdent(S_print), T("LParen"), TStr(S_s), T("RParen") >>

SemiStmt(has_semi) == IF has_semi THEN Append(PrintS, T("Semicolon")) ELSE PrintS

SemiTokens(flags) == WithEof(MainTokens(FlatMap(SemiStmt, flags, 1)))

SemiFlags == SeqsBetween(BOOLEAN, 1, MaxStmts)

SemiInputs == {SemiTokens(flags) : flags \in SemiFlags}

\* --- statements that do and do not break a typing rule ---
StmtKinds == {"good", "unknown_var", "bad_add", "bad_let"}

StmtTokens(kind) ==
    CASE kind = "good" -> Append(PrintS, T("Semicolon"))
      [] kind = "unknown_var" -> << TIdent(S_x), T("Semicolon") >>
      [] kind = "bad_add" -> << TInt(1), T("Plus"), TStr(S_s), T("Semicolon") >>
      [] kind = "bad_let" -> << T("Let"), TIdent(S_y), T("Colon"), TIdent(S_int),
                                T("Assign"), TStr(S_s), T("Semicolon") >>

BodyTokens(kinds) == WithEof(MainTokens(FlatMap(StmtTokens, kinds, 1)))

BodyKinds == SeqsBetween(StmtKinds, 1, MaxStmts)

\* fn helper() -> () { k1 } fn main() -> () { k2 }
TwoFnTokens(k1, k2) ==
    WithEof(FnTokens(S_helper, << >>, UnitTokens, StmtTokens(k1))
            \o MainTokens(StmtTokens(k2)))

ViolationInputs ==
    {BodyTokens(kinds) : kinds \in BodyKinds}
    \cup {TwoFnTokens(k1, k2) : k1 \in StmtKinds, k2 \in StmtKinds}

\* --- modules of function declarations with empty bodies ---
DeclKinds == {"main", "main_param", "main_int", "helper"}

DeclTokens(kind) ==
    CASE kind = "main" -> MainTokens(<< >>)
      [] kind = "main_param" ->
           FnTokens(S_main, << TIdent(S_x), T("Colon"), TIdent(S_int) >>, UnitTokens, << >>)
      [] kind = "main_int" -> FnTokens(S_main, << >>, << TIdent(S_int) >>, << >>)
      [] kind = "helper" -> FnTokens(S_helper, << >>, UnitTokens, << >>)

ModuleTokens(decls) == WithEof(FlatMap(DeclTokens, decls, 1))

ModuleDecls == SeqsBetween(DeclKinds, 0, MaxItems)

ModuleInputs == {ModuleTokens(decls) : decls \in ModuleDecls}

\* --- let x = match S { pat => 1, ... }; ---
ScrutKinds == {"true", "int", "string", "eq"}

ScrutTokens(kind) ==
    CASE kind = "true" -> << T("True") >>
      [] kind = "int" -> << TInt(0) >>
      [] kind = "string" -> << TStr(S_s) >>
      [] kind = "eq" -> << TInt(1), T("Eq"), TInt(1) >>

PatKinds == {"true", "false", "wild", "int", "record"}

ArmTokens(kind) ==
    (CASE kind = "true" -> << T("True") >>
       [] kind = "false" -> << T("False") >>
       [] kind = "wild" -> << T("Underscore") >>
       [] kind = "int" -> << TInt(0) >>
       [] kind = "record" -> << T("LBrace"), T("RBrace") >>)
    \o << T("FatArrow"), TInt(1), T("Comma") >>

MatchTokens(scrut, pats) ==
    WithEof(MainTokens(<< T("Let"), TIdent(S_x), T("Assign"), T("Match") >>
                       \o ScrutTokens(scrut) \o << T("LBrace") >>
                       \o FlatMap(ArmTokens, pats, 1)
                       \o << T("RBrace"), T("Semicolon") >>))

MatchPats == SeqsBetween(PatKinds, 0, MaxArms)

MatchInputs == {MatchTokens(scrut, pats) : scrut \in ScrutKinds, pats \in MatchPats}

\* --- print(args); and let y: () = print(args); ---
ArgKinds == {"int", "string", "bool", "unit"}

ArgTokens(kind) ==
    CASE kind = "int" -> << TInt(1) >>
      [] kind = "string" -> << TStr(S_s) >>
      [] kind = "bool" -> << T("True") >>
      [] kind = "unit" -> UnitTokens

RECURSIVE CommaSeparated(_, _)
CommaSeparated(kinds, i) ==
    IF i > Len(kinds) THEN << >>
    ELSE ArgTokens(kinds[i])
         \o (IF i < Len(kinds) THEN << T("Comma") >> ELSE << >>)
         \o CommaSeparated(kinds, i + 1)

PrintCall(kinds) ==
    << TIdent(S_print), T("LParen") >> \o CommaSeparated(kinds, 1) \o << T("RParen") >>

\* bound: the call is the initialiser of `let y: () = ...`.
PrintTokens(kinds, bound) ==
    WithEof(MainTokens(
        (IF bound
         THEN << T("Let"), TIdent(S_y), T("Colon") >> \o UnitTokens \o << T("Assign") >>
         ELSE << >>)
        \o PrintCall(kinds) \o << T("Semicolon") >>))

\* let x = arg; print(x);
PrintVarTokens(kind) ==
    WithEof(MainTokens(<< T("Let"), TIdent(S_x), T("Assign") >> \o ArgTokens(kind)
                       \o << T("Semicolon"), TIdent(S_print), T("LParen"), TIdent(S_x),
                             T("RParen"), T("Semicolon") >>))

PrintArgLists == SeqsBetween(ArgKinds, 0, MaxCallArgs)

PrintInputs ==
    {PrintTokens(kinds, bound) : kinds \in PrintArgLists, bound \in BOOLEAN}
    \cup {PrintVarTokens(kind) : kind \in ArgKinds}

\* --- struct P { user_id: int @pub(get, set) } fn main() -> () { } ---
StructTokens(get, set) ==
    WithEof(<< T("Struct"), TIdent(S_P), T("LBrace"), TIdent(S_user_id), T("Colon"),
               TIdent(S_int), T("At"), T("Pub"), T("LParen") >>
            \o (IF get THEN << TIdent(S_get) >> ELSE << >>)
            \o (IF get /\ set THEN << T("Comma") >> ELSE << >>)
            \o (IF set THEN << TIdent(S_set) >> ELSE << >>)
            \o << T("RParen"), T("RBrace") >>
            \o MainTokens(<< >>))

StructInputs == {StructTokens(get, set) : get \in BOOLEAN, set \in BOOLEAN}

\* --- one statement and the token that follows it ---
\* fn main() -> () {
MainOpen ==
    << T("Fn"), TIdent(S_main), T("LParen"), T("RParen"), T("Arrow") >>
    \o UnitTokens \o << T("LBrace") >>

FollowStmtKinds ==
    {"let", "let_mut", "return_value", "return", "assign", "assign_deref", "expr", "call"}

\* The tokens of each statement, without its `;`.
FollowStmt(kind) ==
    CASE kind = "let" -> << T("Let"), TIdent(S_x), T("Assign"), TInt(1) >>
      [] kind = "let_mut" ->
            << T("Let"), T("Mut"), TIdent(S_x), T("Colon"), TIdent(S_int),
               T("Assign"), TInt(1) >>
      [] kind = "return_value" -> << T("Return"), TInt(1) >>
      [] kind = "return" -> << T("Return") >>
      [] kind = "assign" -> << TIdent(S_x), T("Assign"), TInt(1) >>
      [] kind = "assign_deref" -> << T("Star"), TIdent(S_x), T("Assign"), TInt(1) >>
      [] kind = "expr" -> << TInt(1) >>
      [] kind = "call" -> PrintS

\* The kinds of the token after the statement: none of them can continue the
\* statement (no infix operator, no `=`; after a bare `return` every token but
\* `}` and `;` starts its value).
FollowKinds(kind) ==
    IF kind = "return" THEN {"Semicolon", "RBrace"}
    ELSE {"Semicolon", "RBrace", "Let", "Return", "Ident", "IntLiteral",
          "StringLiteral", "Comma", "RParen", "Colon", "FatArrow", "Fn", "Eof"}

FollowToken(f) ==
    CASE f = "Ident" -> TIdent(S_y)
      [] f = "IntLiteral" -> TInt(2)
      [] f = "StringLiteral" -> TStr(S_t)
      [] OTHER -> T(f)

\* fn main() -> () { statement follower }, the source ending at the follower
\* when the follower is the end of the file.
FollowTokens(kind, f) ==
    MainOpen \o FollowStmt(kind)
    \o (CASE f = "Eof" -> << >>
          [] f = "RBrace" -> << T("RBrace") >>
          [] OTHER -> << FollowToken(f), T("RBrace") >>)
    \o << T("Eof") >>

FollowInputs ==
    UNION {{FollowTokens(kind, f) : f \in FollowKinds(kind)} : kind \in FollowStmtKinds}

\* --- well-formed sources and what is left of them after one fault ---
\* pub fn helper(a: int, b: &mut P) -> Result[int, string] {
\*     let mut x: Option[int] = -a + *b; return; }
BaseFn ==
    << T("Pub"), T("Fn"), TIdent(S_helper), T("LParen"), TIdent(S_a), T("Colon"),
       TIdent(S_int), T("Comma"), TIdent(S_b), T("Colon"), T("Amp"), T("Mut"),
       TIdent(S_P), T("RParen"), T("Arrow"), TIdent(S_Result), T("LBracket"),
       TIdent(S_int), T("Comma"), TIdent(S_string), T("RBracket"), T("LBrace"),
       T("Let"), T("Mut"), TIdent(S_x), T("Colon"), TIdent(S_Option), T("LBracket"),
       TIdent(S_int), T("RBracket"), T("Assign"), T("Minus"), TIdent(S_a), T("Plus"),
       T("Star"), TIdent(S_b), T("Semicolon"), T("Return"), T("Semicolon"),
       T("RBrace") >>

\* fn main() -> () { if !x == (1) { y = &mut a; } else { *y = a::b(1, "s"); }; }
BaseIf ==
    MainOpen \o
    << T("If"), T("Not"), TIdent(S_x), T("Eq"), T("LParen"), TInt(1), T("RParen"),
       T("LBrace"), TIdent(S_y), T("Assign"), T("Amp"), T("Mut"), TIdent(S_a),
       T("Semicolon"), T("RBrace"), T("Else"), T("LBrace"), T("Star"), TIdent(S_y),
       T("Assign"), TIdent(S_a), T("ColonColon"), TIdent(S_b), T("LParen"), TInt(1),
       T("Comma"), TStr(S_s), T("RParen"), T("Semicolon"), T("RBrace"),
       T("Semicolon"), T("RBrace") >>

\* fn main() -> () { match x { _ => 1, { a: int, b: () } => Ok(1), true => { 1; } }; }
BaseMatch ==
    MainOpen \o
    << T("Match"), TIdent(S_x), T("LBrace"), T("Underscore"), T("FatArrow"), TInt(1),
       T("Comma"), T("LBrace"), TIdent(S_a), T("Colon"), TIdent(S_int), T("Comma"),
       TIdent(S_b), T("Colon"), T("LParen"), T("RParen"), T("RBrace"), T("FatArrow"),
       T("Ok"), T("LParen"), TInt(1), T("RParen"), T("Comma"), T("True"),
       T("FatArrow"), T("LBrace"), TInt(1), T("Semicolon"), T("RBrace"), T("RBrace"),
       T("Semicolon"), T("RBrace") >>

\* struct P { a: int @pub(get, set), b: string }
BaseStruct ==
    << T("Struct"), TIdent(S_P), T("LBrace"), TIdent(S_a), T("Colon"), TIdent(S_int),
       T("At"), T("Pub"), T("LParen"), TIdent(S_get), T("Comma"), TIdent(S_set),
       T("RParen"), T("Comma"), TIdent(S_b), T("Colon"), TIdent(S_string),
       T("RBrace") >>

\* import a::b::{c, x} as y  import a::c as b  import a
BaseImport ==
    << T("Import"), TIdent(S_a), T("ColonColon"), TIdent(S_b), T("ColonColon"),
       T("LBrace"), TIdent(S_c), T("Comma"), TIdent(S_x), T("RBrace"), T("As"),
       TIdent(S_y), T("Import"), TIdent(S_a), T("ColonColon"), TIdent(S_c), T("As"),
       TIdent(S_b), T("Import"), TIdent(S_a) >>

Bases == {BaseFn, BaseIf, BaseMatch, BaseStruct, BaseImport}

\* The kinds a token of a source is replaced by.
FaultKinds ==
    {"Eof", "RBrace", "LBrace", "RParen", "LParen", "Semicolon", "Comma", "Ident",
     "Assign", "Return", "Let", "Fn", "ColonColon", "Minus", "Match", "As",
     "IntLiteral", "If", "At", "Underscore"}

Prefix(b, n) == SubSeq(b, 1, n)
Delete(b, i) == SubSeq(b, 1, i - 1) \o SubSeq(b, i + 1, Len(b))
Subst(b, i, kind) == [b EXCEPT ![i] = FollowToken(kind)]

\* The source whole, cut short (with and without the Eof token), with one token
\* missing and with one token replaced.
FaultsOf(b) ==
    {Prefix(b, n) : n \in 0..Len(b)}
    \cup {WithEof(Prefix(b, n)) : n \in 0..Len(b)}
    \cup {WithEof(Delete(b, i)) : i \in 1..Len(b)}
    \cup {WithEof(Subst(b, i, kind)) : i \in 1..Len(b), kind \in FaultKinds}

\* Token lists of any kind, up to MaxJunk tokens and without an Eof of their own.
MaxJunk == 2

JunkInputs == SeqsBetween({FollowToken(kind) : kind \in FaultKinds}, 0, MaxJunk)

FaultInputs == UNION {FaultsOf(b) : b \in Bases} \cup JunkInputs

CompileInputs ==
    ExprInputs \cup SemiInputs \cup ViolationInputs \cup ModuleInputs
    \cup MatchInputs \cup PrintInputs \cup StructInputs \cup FollowInputs
    \cup FaultInputs

\* The code generator and the machine take no part in these runs.
MachineIdle ==
    /\ program = Program(<< >>, << >>, << >>)
    /\ wasm = NoModule
    /\ frames = << >>
    /\ mem = << >>
    /\ glob = 0
    /\ out = << >>
    /\ calls = << >>
    /\ status = "none"

InitCompile ==
    /\ tokens \in CompileInputs
    /\ stage = "lexed"
    /\ root = << >>
    /\ parsed = << >>
    /\ diagnostics = << >>
    /\ source = << >>
    /\ offset = 0
    /\ SideIdle
    /\ MachineIdle

\* parser.parse_root().map_err(|e| vec![Diagnostic::error(e, None)])?
\* parsed keeps the Root as the parser returned it; root is compile's `mut root`.
ParseRoot ==
    /\ stage = "lexed"
    /\ LET r == parse_root(tokens) IN
       IF r.ok
       THEN /\ stage' = "parsed"
            /\ parsed' = r.v
            /\ root' = r.v
            /\ UNCHANGED diagnostics
       ELSE IF IsPanic(r)
       THEN /\ stage' = "panicked"
            /\ UNCHANGED <<parsed, root, diagnostics>>
       ELSE /\ stage' = "failed"
            /\ diagnostics' = << DiagnosticError(r.err) >>
            /\ UNCHANGED <<parsed, root>>
    /\ UNCHANGED <<tokens, lexVars, sideVars, machineVars>>

\* desugar::desugar_root(&mut root)
DesugarRoot ==
    /\ stage = "parsed"
    /\ root' = desugar_root(root)
    /\ stage' = "desugared"
    /\ UNCHANGED <<tokens, parsed, diagnostics, lexVars, sideVars, machineVars>>

\* typechecker.check_root(&root).map_err(|_| typechecker.diagnostics)?
CheckRoot ==
    /\ stage = "desugared"
    /\ LET r == check_root(root) IN
       /\ stage' = IF r.ok THEN "checked" ELSE "failed"
       /\ diagnostics' = r.d
    /\ UNCHANGED <<tokens, parsed, root, lexVars, sideVars, machineVars>>

CompileNext == ParseRoot \/ DesugarRoot \/ CheckRoot

SpecCompile == InitCompile /\ [][CompileNext]_vars

(***************************************************************************)
(* Properties of the parser.                                               *)
(***************************************************************************)
\* The level of an operator token in the precedence table, lowest first:
\* ||, &&, == !=, < <= > >=, + -, * / %.
Level(kind) ==
    CASE kind = "OrOr" -> 1
      [] kind = "AndAnd" -> 2
      [] kind \in {"Eq", "Ne"} -> 3
      [] kind \in {"Lt", "Le", "Gt", "Ge"} -> 4
      [] kind \in {"Plus", "Minus"} -> 5
      [] kind \in {"Star", "Slash", "Percent"} -> 6

\* The BinOp an operator token stands for.
BinOpOf(kind) ==
    CASE kind = "OrOr" -> "Or"
      [] kind = "AndAnd" -> "And"
      [] kind = "Plus" -> "Add"
      [] kind = "Minus" -> "Sub"
      [] kind = "Star" -> "Mul"
      [] kind = "Slash" -> "Div"
      [] kind = "Percent" -> "Rem"
      [] OTHER -> kind

\* BinaryOp(first, BinaryOp(..)) shapes over the operands a, b, c.
LeftNested(op1, op2) ==
    ExprBinaryOp(BinOpOf(op2),
                 ExprBinaryOp(BinOpOf(op1), ExprIdent(S_a), ExprIdent(S_b)),
                 ExprIdent(S_c))
RightNested(op1, op2) ==
    ExprBinaryOp(BinOpOf(op1), ExprIdent(S_a),
                 ExprBinaryOp(BinOpOf(op2), ExprIdent(S_b), ExprIdent(S_c)))

\* The expression of the first statement of the first function parsed.
ParsedExpr == parsed.items[1].decl.body.stmts[1].expr

\* C4: for every operator lo of a lower level and hi of a higher level,
\* `a hi b lo c` parses to BinaryOp(lo, BinaryOp(hi, a, b), c) and
\* `a lo b hi c` parses to BinaryOp(lo, a, BinaryOp(hi, b, c)).
C4_Precedence ==
    stage = "parsed" =>
        \A hi \in OpKinds, lo \in OpKinds :
            Level(hi) > Level(lo) =>
                /\ tokens = ExprTokens(hi, lo) => ParsedExpr = LeftNested(hi, lo)
                /\ tokens = ExprTokens(lo, hi) => ParsedExpr = RightNested(lo, hi)

\* What does hold: the order lo, hi; and hi, lo when hi is two or more levels
\* above lo.
C4_ApartOrAscending ==
    stage = "parsed" =>
        \A hi \in OpKinds, lo \in OpKinds :
            Level(hi) > Level(lo) =>
                /\ (tokens = ExprTokens(hi, lo) /\ Level(hi) > Level(lo) + 1)
                       => ParsedExpr = LeftNested(hi, lo)
                /\ tokens = ExprTokens(lo, hi) => ParsedExpr = RightNested(lo, hi)

\* C5: for every two operators op1, op2 of one level, `a op1 b op2 c` parses
\* to BinaryOp(op2, BinaryOp(op1, a, b), c).
C5_LeftAssociative ==
    stage = "parsed" =>
        \A op1 \in OpKinds, op2 \in OpKinds :
            (Level(op1) = Level(op2) /\ tokens = ExprTokens(op1, op2))
                => ParsedExpr = LeftNested(op1, op2)

\* What the loop does with two operators of one level: it nests to the right.
C5_RightNested ==
    stage = "parsed" =>
        \A op1 \in OpKinds, op2 \in OpKinds :
            (Level(op1) = Level(op2) /\ tokens = ExprTokens(op1, op2))
                => ParsedExpr = RightNested(op1, op2)

\* The statements of flags that lack their `;`.
Missing(flags) == Cardinality({i \in DOMAIN flags : ~flags[i]})

\* C10: a source with N statements each missing its `;` yields N diagnostics
\* from one parse.
C10_OneDiagnosticPerError ==
    stage # "lexed" =>
        \A flags \in SemiFlags :
            tokens = SemiTokens(flags) => Len(diagnostics) = Missing(flags)

\* What parse_root does: it returns at the first error, with its message alone.
C10_FirstErrorOnly ==
    stage # "lexed" =>
        \A flags \in SemiFlags :
            (tokens = SemiTokens(flags) /\ Missing(flags) > 0)
                => /\ stage = "failed"
                   /\ diagnostics = << DiagnosticError(<< "Expected ';' after statement" >>) >>

(***************************************************************************)
(* Properties of the type checker.                                         *)
(***************************************************************************)
Checked == stage \in {"checked", "failed"}

ErrorCount == Cardinality({i \in DOMAIN diagnostics : diagnostics[i].level = "Error"})

\* The statements of kinds that break a rule.
Violations(kinds) == Cardinality({i \in DOMAIN kinds : kinds[i] # "good"})

\* C6: a module with k violations in k different statements or functions
\* leaves k Error diagnostics after one run of check_root.
C6_AllViolationsReported ==
    Checked =>
        /\ \A kinds \in BodyKinds :
               tokens = BodyTokens(kinds) => ErrorCount = Violations(kinds)
        /\ \A k1 \in StmtKinds, k2 \in StmtKinds :
               tokens = TwoFnTokens(k1, k2) => ErrorCount = Violations(<< k1, k2 >>)

\* What check_root does: it returns at the first violation.
C6_FirstViolationOnly ==
    Checked =>
        \A kinds \in BodyKinds :
            tokens = BodyTokens(kinds)
                => ErrorCount = (IF Violations(kinds) > 0 THEN 1 ELSE 0)

\* C7: print(x) with one argument of type Int or String is accepted and has
\* type Unit; `fn main() -> () { print(1); }` passes type checking.
C7_PrintIntOrString ==
    Checked =>
        \A kind \in {"int", "string"}, bound \in BOOLEAN :
            tokens = PrintTokens(<< kind >>, bound) => stage = "checked"

\* What the checker accepts: the String argument alone.
C7_PrintStringOnly ==
    Checked =>
        \A kinds \in PrintArgLists, bound \in BOOLEAN :
            tokens = PrintTokens(kinds, bound)
                => (stage = "checked" <=> kinds = << "string" >>)

\* C8: check_root succeeds only when main is declared exactly once, without
\* parameters and returning Unit; every other module is rejected with an
\* Error diagnostic.
C8_MainSignature ==
    Checked =>
        \A decls \in ModuleDecls :
            tokens = ModuleTokens(decls) =>
                LET mains == {i \in DOMAIN decls : decls[i] # "helper"}
                    good == Cardinality(mains) = 1 /\ \A i \in mains : decls[i] = "main"
                IN  /\ stage = "checked" => good
                    /\ ~good => (stage = "failed" /\ ErrorCount > 0)

\* What check_root asks of main: that one is declared and none returns
\* anything but Unit.
C8_MainReturnsUnit ==
    Checked =>
        \A decls \in ModuleDecls :
            tokens = ModuleTokens(decls) =>
                (stage = "checked" <=>
                    /\ \E i \in DOMAIN decls : decls[i] # "helper"
                    /\ \A i \in DOMAIN decls : decls[i] # "main_int")

\* A run on `let x = match S { arms };`.
IsMatchRun == Len(tokens) >= 12 /\ tokens[9].kind = "Let" /\ tokens[12].kind = "Match"

\* The match of such a run, as parsed.
TheMatch == parsed.items[1].decl.body.stmts[1].init

\* A scrutinee of type Bool: a Bool literal or a comparison.
ScrutIsBool(e) ==
    \/ e.tag = "Literal" /\ e.lit.tag = "Bool"
    \/ e.tag = "BinaryOp" /\ e.op \in {"Eq", "Ne", "Lt", "Le", "Gt", "Ge"}

HasWildcardArm(arms) == \E i \in DOMAIN arms : arms[i].pattern.tag = "Wildcard"

HasBoolArm(arms, b) ==
    \E i \in DOMAIN arms :
        /\ arms[i].pattern.tag = "Literal"
        /\ arms[i].pattern.lit.tag = "Bool"
        /\ arms[i].pattern.lit.b = b

\* C9: a match with a `_` arm passes; one without passes if and only if its
\* scrutinee has type Bool and its arms hold both a `true` and a `false`
\* literal pattern; every other match is rejected with the exhaustiveness Error.
C9_MatchExhaustive ==
    (Checked /\ IsMatchRun) =>
        LET exhaustive ==
                \/ HasWildcardArm(TheMatch.arms)
                \/ /\ ScrutIsBool(TheMatch.scrutinee)
                   /\ HasBoolArm(TheMatch.arms, TRUE)
                   /\ HasBoolArm(TheMatch.arms, FALSE)
        IN  /\ exhaustive => (stage = "checked" /\ diagnostics = << >>)
            /\ ~exhaustive =>
                   /\ stage = "failed"
                   /\ diagnostics = << DiagnosticError(
                          << "Match must be exhaustive (add _ arm or cover all cases)" >>) >>

\* `match true { true => 1, false => 1, }` has been checked and accepted.
C9_Witness ==
    /\ stage = "checked"
    /\ tokens = MatchTokens("true", << "true", "false" >>)

\* The message of Parser::expect_semicolon_after_stmt as compile reports it.
MissingSemicolon == << DiagnosticError(<< "Expected ';' after statement" >>) >>

Consumed(r, p) == r.ok => (r.p > p /\ r.p <= Len(tokens) + 1)

\* One iteration of each loop of the parser, started at position p.
IterationConsumes(p) ==
    /\ Consumed(parse_import(tokens, p), p)
    /\ Consumed(parse_struct(tokens, p), p)
    /\ Consumed(parse_fn(tokens, p), p)
    /\ Consumed(parse_stmt(tokens, p), p)
    /\ Consumed(parse_struct_field(tokens, p), p)
    /\ Consumed(parse_match_pattern(tokens, p), p)
    /\ Consumed(parse_expr(tokens, p), p)
    /\ Consumed(parse_type(tokens, p), p)

\* C12: on every token list, with or without a trailing Eof, parse_root
\* returns Ok(Root) or Err(message) and never panics, and every iteration of a
\* loop of the parser consumes a token or returns an Err.
C12_ParseRootTotal ==
    /\ stage # "panicked"
    /\ stage = "parsed" => (parsed = root /\ DOMAIN parsed = {"items"})
    /\ (stage = "failed" /\ parsed = << >>) =>
            (Len(diagnostics) = 1 /\ diagnostics[1].message # << >>)
    /\ stage \in {"parsed", "failed"} =>
            \A p \in 1..(Len(tokens) + 1) : IterationConsumes(p)

\* A source cut short, without the Eof token, has been rejected.
C12_Witness ==
    /\ stage = "failed"
    /\ parsed = << >>
    /\ \E n \in 1..Len(BaseIf) : tokens = Prefix(BaseIf, n)

(***************************************************************************)
(* knox_compiler::lexer.  The source is a sequence of characters, all of   *)
(* them ASCII, so that Lexer::offset counts characters; the character at   *)
(* offset off is src[off + 1].                                             *)
(***************************************************************************)
\* Lexer::peek is None at the end of the source.
LexAtEnd(src, off) == off >= Len(src)
CharAt(src, off) == src[off + 1]

DigitChars == << "0", "1", "2", "3", "4", "5", "6", "7", "8", "9" >>

\* char::is_whitespace on ASCII
is_whitespace(c) == c \in {" ", "\t", "\n", "\r", "\f"}
is_ascii_alphabetic(c) ==
    \E i \in 1..Len(LowerChars) : c = LowerChars[i] \/ c = UpperChars[i]
is_ascii_digit(c) == \E i \in 1..Len(DigitChars) : c = DigitChars[i]
is_ascii_alphanumeric(c) == is_ascii_alphabetic(c) \/ is_ascii_digit(c)

\* Lexer::skip_whitespace: the offset after the blanks, a newline not among them.
RECURSIVE skip_whitespace(_, _)
skip_whitespace(src, off) ==
    IF ~LexAtEnd(src, off) /\ is_whitespace(CharAt(src, off)) /\ CharAt(src, off) # "\n"
    THEN skip_whitespace(src, off + 1)
    ELSE off

\* Lexer::skip_line_comment: the offset of the next newline, or the end.
RECURSIVE skip_line_comment(_, _)
skip_line_comment(src, off) ==
    IF ~LexAtEnd(src, off) /\ CharAt(src, off) # "\n"
    THEN skip_line_comment(src, off + 1)
    ELSE off

\* Lexer::read_ident_or_keyword: the word and the offset after it.
RECURSIVE read_ident_or_keyword(_, _, _)
read_ident_or_keyword(src, off, s) ==
    IF ~LexAtEnd(src, off)
       /\ (is_ascii_alphanumeric(CharAt(src, off)) \/ CharAt(src, off) = "_")
    THEN read_ident_or_keyword(src, off + 1, Append(s, CharAt(src, off)))
    ELSE [s |-> s, off |-> off]

\* The characters an escape stands for; none for an invalid escape.
Escaped(c) ==
    CASE c = "n" -> << "\n" >>
      [] c = "t" -> << "\t" >>
      [] c = "\"" -> << "\"" >>
      [] c = "\\" -> << "\\" >>
      [] OTHER -> << >>

\* The loop of Lexer::read_string, after the opening quote.
RECURSIVE ReadStringLoop(_, _, _)
ReadStringLoop(src, off, s) ==
    IF LexAtEnd(src, off)
    THEN [ok |-> FALSE, s |-> << "Unterminated string" >>, off |-> off]
    ELSE IF CharAt(src, off) = "\"" THEN [ok |-> TRUE, s |-> s, off |-> off + 1]
    ELSE IF CharAt(src, off) = "\\"
         THEN IF LexAtEnd(src, off + 1)
              THEN [ok |-> FALSE, s |-> << "Invalid escape in string" >>, off |-> off + 1]
              ELSE IF Escaped(CharAt(src, off + 1)) = << >>
              THEN [ok |-> FALSE, s |-> << "Invalid escape in string" >>, off |-> off + 2]
              ELSE ReadStringLoop(src, off + 2, s \o Escaped(CharAt(src, off + 1)))
    ELSE ReadStringLoop(src, off + 1, Append(s, CharAt(src, off)))

\* Lexer::read_string, off at the opening quote.
read_string(src, off) == ReadStringLoop(src, off + 1, << >>)

DigitValue(c) == (CHOOSE i \in 1..Len(DigitChars) : c = DigitChars[i]) - 1

\* The digits of a numeral from its first non-zero digit on.
RECURSIVE StripZeros(_)
StripZeros(ds) ==
    IF ds # << >> /\ Head(ds) = "0" THEN StripZeros(Tail(ds)) ELSE ds

RECURSIVE DecimalValue(_, _)
DecimalValue(ds, n) ==
    IF ds = << >> THEN n ELSE DecimalValue(Tail(ds), n * 10 + DigitValue(Head(ds)))

\* i64::MAX, digit by digit.
I64MaxDigits ==
    << "9", "2", "2", "3", "3", "7", "2", "0", "3", "6", "8", "5", "4", "7", "7", "5",
       "8", "0", "7" >>

\* ds, without leading zeros, is a numeral above i64::MAX.
BeyondI64(ds) ==
    \/ Len(ds) > Len(I64MaxDigits)
    \/ /\ Len(ds) = Len(I64MaxDigits)
       /\ \E i \in 1..Len(ds) :
            /\ DigitValue(ds[i]) > DigitValue(I64MaxDigits[i])
            /\ \A j \in 1..(i - 1) : ds[j] = I64MaxDigits[j]

\* str::parse::<i64>().unwrap_or(0): 0 beyond i64; a value of ten digits or
\* more within i64 is kept as its digits.
ParseI64(ds) ==
    IF BeyondI64(StripZeros(ds)) THEN 0
    ELSE IF Len(StripZeros(ds)) < Len(DigitChars) THEN DecimalValue(StripZeros(ds), 0)
    ELSE StripZeros(ds)

\* The loop of Lexer::read_number over the digits.
RECURSIVE ReadNumberLoop(_, _, _)
ReadNumberLoop(src, off, ds) ==
    IF ~LexAtEnd(src, off) /\ is_ascii_digit(CharAt(src, off))
    THEN ReadNumberLoop(src, off + 1, Append(ds, CharAt(src, off)))
    ELSE [n |-> ParseI64(ds), off |-> off]

\* Lexer::read_number
read_number(src, off) == ReadNumberLoop(src, off, << >>)

\* The keyword a word is, or Ident.
KeywordKind(s) ==
    CASE s = << "f", "n" >> -> "Fn"
      [] s = << "l", "e", "t" >> -> "Let"
      [] s = << "m", "u", "t" >> -> "Mut"
      [] s = << "i", "f" >> -> "If"
      [] s = << "e", "l", "s", "e" >> -> "Else"
      [] s = << "m", "a", "t", "c", "h" >> -> "Match"
      [] s = << "r", "e", "t", "u", "r", "n" >> -> "Return"
      [] s = << "O", "k" >> -> "Ok"
      [] s = << "E", "r", "r" >> -> "Err"
      [] s = << "O", "p", "t", "i", "o", "n" >> -> "Option"
      [] s = << "R", "e", "s", "u", "l", "t" >> -> "Result"
      [] s = << "d", "y", "n", "a", "m", "i", "c" >> -> "Dynamic"
      [] s = << "S", "o", "m", "e" >> -> "Some"
      [] s = << "N", "o", "n", "e" >> -> "None"
      [] s = << "t", "r", "u", "e" >> -> "True"
      [] s = << "f", "a", "l", "s", "e" >> -> "False"
      [] OTHER -> "Ident"

\* One iteration of the loop of next_token either returns a token or goes round
\* again; both leave the offset behind the characters consumed.
Yield(tok, off) == [some |-> TRUE, tok |-> tok, off |-> off]
Again(off) == [some |-> FALSE, tok |-> << >>, off |-> off]

\* The character after c, at offset off, is d.
Followed(src, off, d) == ~LexAtEnd(src, off) /\ CharAt(src, off) = d

\* The token a word is.
WordToken(w) ==
    Yield(IF KeywordKind(w.s) = "Ident" THEN TIdent(w.s) ELSE T(KeywordKind(w.s)), w.off)

\* The token of a string literal: the empty literal when read_string failed.
StringToken(r) == Yield(TStr(IF r.ok THEN r.s ELSE << >>), r.off)

NumberToken(r) == Yield([kind |-> "IntLiteral", s |-> << >>, n |-> r.n], r.off)

\* A match on c that puts back every character it has no token for.
Punctuation_unread(src, c, off) ==
    IF c = ":" THEN Yield(T("Colon"), off) ELSE Again(off - 1)

\* The match on the character c that next_token has consumed; off is behind c.
Punctuation(src, c, off) ==
    CASE c = "(" -> Yield(T("LParen"), off)
      [] c = ")" -> Yield(T("RParen"), off)
      [] c = "{" -> Yield(T("LBrace"), off)
      [] c = "}" -> Yield(T("RBrace"), off)
      [] c = "[" -> Yield(T("LBracket"), off)
      [] c = "]" -> Yield(T("RBracket"), off)
      [] c = ":" -> Yield(T("Colon"), off)
      [] c = "," -> Yield(T("Comma"), off)
      [] c = "." -> Yield(T("Dot"), off)
      [] c = "?" -> Yield(T("Question"), off)
      [] c = "|" -> Yield(T("Pipe"), off)
      [] c = "_" -> Yield(T("Underscore"), off)
      [] c = "<" -> Yield(T("Lt"), off)
      [] c = ">" -> Yield(T("Gt"), off)
      [] c = "=" -> IF Followed(src, off, "=") THEN Yield(T("Eq"), off + 1)
                    ELSE IF Followed(src, off, ">") THEN Yield(T("FatArrow"), off + 1)
                    ELSE Yield(T("Assign"), off)
      [] c = "!" -> IF Followed(src, off, "=") THEN Yield(T("Ne"), off + 1)
                    ELSE Yield(TIdent(<< "!" >>), off)
      [] c = "-" -> IF Followed(src, off, ">") THEN Yield(T("Arrow"), off + 1)
                    ELSE Yield(TIdent(<< "-" >>), off)
      [] OTHER -> Again(off)

\* The body of the loop of next_token from the character at off on, the blanks
\* before it skipped.
AtChar(src, off) ==
    IF LexAtEnd(src, off) THEN Yield(T("Eof"), off)
    ELSE IF CharAt(src, off) = "/"
         THEN IF Followed(src, off + 1, "/")
              THEN Again(skip_line_comment(src, off + 2))
              ELSE Again(off + 1)
    ELSE IF is_ascii_alphabetic(CharAt(src, off)) \/ CharAt(src, off) = "_"
         THEN WordToken(read_ident_or_keyword(src, off, << >>))
    ELSE IF CharAt(src, off) = "\"" THEN StringToken(read_string(src, off))
    ELSE IF is_ascii_digit(CharAt(src, off)) THEN NumberToken(read_number(src, off))
    ELSE Punctuation(src, CharAt(src, off), off + 1)

\* One iteration of the loop of Lexer::next_token, started at off.
next_token(src, off) == AtChar(src, skip_whitespace(src, off))

(***************************************************************************)
(* The lexer at work: collect_tokens calls next_token until it has pushed  *)
(* the Eof token.                                                          *)
(***************************************************************************)
\* lex_ident_and_keywords
Src_keywords ==
    << "f", "n", " ", "l", "e", "t", " ", "m", "u", "t", " ", "i", "f", " ", "e", "l",
       "s", "e", " ", "m", "a", "t", "c", "h", " ", "r", "e", "t", "u", "r", "n" >>

\* lex_string_literal
Src_hello ==
    << "\"", "h", "e", "l", "l", "o", "\"" >>

\* lex_int_literal
Src_ints ==
    << "4", "2", " ", "0" >>

\* lex_arrow_and_fat_arrow
Src_arrows ==
    << "-", ">", " ", "=", ">" >>

\* the multi-character marks between operands
Src_operators ==
    << "a", " ", "<", "=", " ", "b", " ", ">", "=", " ", "c", " ", ":", ":", " ", "d",
       " ", "&", "&", " ", "e", " ", "|", "|", " ", "f", " ", "=", "=", " ", "g", " ",
       "!", "=", " ", "h" >>

\* a string left open on the first of two lines
Src_unterminated ==
    << "l", "e", "t", " ", "s", " ", "=", " ", "\"", "a", "b", "\n", "l", "e", "t",
       " ", "x", " ", "=", " ", "1" >>

\* the escapes, and one that is none
Src_escapes ==
    << "\"", "a", "\\", "n", "\\", "t", "\\", "\"", "\\", "\\", "\"", " ", "\"", "\\",
       "q", "\"", " ", "x" >>

\* a line comment and a lone slash
Src_comment ==
    << "x", " ", "/", "/", " ", "c", "\n", "y", " ", "/", " ", "z" >>

\* the single-character marks and two characters that are none
Src_punctuation ==
    << "(", ")", "{", "}", "[", "]", ":", ",", ".", "?", "|", "_", "<", ">", "#", ";" >>

\* numerals around i64::MAX
Src_numbers ==
    << "9", "2", "2", "3", "3", "7", "2", "0", "3", "6", "8", "5", "4", "7", "7", "5",
       "8", "0", "8", " ", "9", "2", "2", "3", "3", "7", "2", "0", "3", "6", "8", "5",
       "4", "7", "7", "5", "8", "0", "7", " ", "0", "0", "7" >>

FixedSources ==
    {Src_keywords, Src_hello, Src_ints, Src_arrows, Src_operators, Src_unterminated,
     Src_escapes, Src_comment, Src_punctuation, Src_numbers}

\* The characters of the sources of every composition, up to MaxSrcLen of them.
LexChars == {"-", ">", "=", "!", "<", "&", "|", "a", "\"", "\n", "/"}

MaxSrcLen == 3

\* The multi-character marks, each with the token kind of its own.
Marks ==
    {<< "-", ">" >>, << "=", ">" >>, << "=", "=" >>, << "!", "=" >>, << "<", "=" >>,
     << ">", "=" >>, << ":", ":" >>, << "&", "&" >>, << "|", "|" >>}

MarkKind(mk) ==
    CASE mk = << "-", ">" >> -> "Arrow"
      [] mk = << "=", ">" >> -> "FatArrow"
      [] mk = << "=", "=" >> -> "Eq"
      [] mk = << "!", "=" >> -> "Ne"
      [] mk = << "<", "=" >> -> "Le"
      [] mk = << ">", "=" >> -> "Ge"
      [] mk = << ":", ":" >> -> "ColonColon"
      [] mk = << "&", "&" >> -> "AndAnd"
      [] mk = << "|", "|" >> -> "OrOr"

\* What stands before and after a mark: nothing, an identifier or a blank.
Contexts == {<< >>, << "a" >>, << " " >>}

MarkInputs == {pre \o mk \o post : pre \in Contexts, mk \in Marks, post \in Contexts}

\* A string literal left open on one line, and the next line.
OpenString(body, rest) == << "\"" >> \o body \o << "\n" >> \o rest

OpenBodies == {<< >>, << "a" >>, << "a", " ", "b" >>}
OpenRests == {<< "x" >>, << "x", " ", "y" >>, << "x", "\n", "y" >>}

OpenStringInputs == {OpenString(body, rest) : body \in OpenBodies, rest \in OpenRests}

LexInputs ==
    SeqsBetween(LexChars, 0, MaxSrcLen) \cup FixedSources \cup MarkInputs
    \cup OpenStringInputs

InitLex ==
    /\ source \in LexInputs
    /\ offset = 0
    /\ tokens = << >>
    /\ stage = "lexing"
    /\ root = << >>
    /\ parsed = << >>
    /\ diagnostics = << >>
    /\ SideIdle
    /\ MachineIdle

\* An iteration of next_token that ends in `continue`.
LexContinue ==
    /\ stage = "lexing"
    /\ ~next_token(source, offset).some
    /\ offset' = next_token(source, offset).off
    /\ UNCHANGED <<source, tokens, stage, root, parsed, diagnostics, sideVars, machineVars>>

\* An iteration of next_token that returns a token, which collect_tokens pushes;
\* the Eof token ends its loop.
LexReturn ==
    /\ stage = "lexing"
    /\ next_token(source, offset).some
    /\ offset' = next_token(source, offset).off
    /\ tokens' = Append(tokens, next_token(source, offset).tok)
    /\ stage' = IF next_token(source, offset).tok.kind = "Eof" THEN "lexed" ELSE "lexing"
    /\ UNCHANGED <<source, root, parsed, diagnostics, sideVars, machineVars>>

LexNext == LexContinue \/ LexReturn

SpecLex == InitLex /\ [][LexNext]_vars

\* The loop of collect_tokens goes on as long as it can.
SpecLexLive == SpecLex /\ WF_vars(LexNext)

\* The token list ends with the Eof token and holds no other.
EofLastOnly ==
    /\ tokens # << >>
    /\ \A i \in 1..Len(tokens) : (tokens[i].kind = "Eof") <=> (i = Len(tokens))

\* C13: collect_tokens terminates on every source with a token list whose last
\* token, and no other, is Eof, and every iteration of the loop of next_token
\* consumes a character or returns a token.
C13_LexerTotal ==
    /\ [](stage = "lexed" => EofLastOnly /\ offset = Len(source))
    /\ <>(stage = "lexed")
    /\ [][offset' > offset \/ Len(tokens') > Len(tokens)]_vars

\* The source of two lines with an open string has been lexed to its end.
C13_Witness ==
    /\ source = Src_unterminated
    /\ stage = "lexed"
    /\ EofLastOnly

\* The tokens of what stands beside a mark.
ContextTokens(ctx) == IF ctx = << "a" >> THEN << TIdent(S_a) >> ELSE << >>

\* The source pre mk post was lexed with the mark as the one token of its kind.
MarkIsOneToken(pre, mk, post) ==
    (stage = "lexed" /\ source = pre \o mk \o post)
        => tokens = ContextTokens(pre) \o << T(MarkKind(mk)) >> \o ContextTokens(post)
                    \o << T("Eof") >>

\* C14: each of -> => == != <= >= :: && || outside a string or comment is
\* lexed as one token of its own kind, never as two tokens and never dropped.
C14_OneToken ==
    \A pre \in Contexts, mk \in Marks, post \in Contexts : MarkIsOneToken(pre, mk, post)

\* What next_token does: -> => == != are one token each.
C14_ArrowsAndEquality ==
    \A pre \in Contexts, post \in Contexts :
    \A mk \in {<< "-", ">" >>, << "=", ">" >>, << "=", "=" >>, << "!", "=" >>} :
        MarkIsOneToken(pre, mk, post)

\* C15: a string literal without its closing quote yields a diagnostic, and the
\* lexer goes on at the next newline, so the tokens of the next line are there.
C15_Resynchronises ==
    \A body \in OpenBodies, rest \in OpenRests :
        (stage = "lexed" /\ source = OpenString(body, rest))
            => /\ Len(diagnostics) = 1
               /\ \E i \in 1..Len(tokens) : tokens[i] = TIdent(S_x)

\* What next_token does: read_string consumes the source to its end, and the
\* empty string literal is the only token, without a diagnostic.
C15_RestSwallowed ==
    \A body \in OpenBodies, rest \in OpenRests :
        (stage = "lexed" /\ source = OpenString(body, rest))
            => /\ diagnostics = << >>
               /\ tokens = << TStr(<< >>), T("Eof") >>


(***************************************************************************)
(* The accessor side tables: knox_syntax/src/accessors.rs and              *)
(* knox_compiler/src/desugar/accessors.rs, over the AST of                 *)
(* knox_syntax/src/ast.rs (a struct has a visibility, a field always has   *)
(* its FieldAttrs, a named type is a Path).                                *)
(***************************************************************************)
TypePath(segments) == [tag |-> "Path", segments |-> segments]

\* StructDecl { span, vis, name, fields }
StructDeclVis(vis, name, fields) == [vis |-> vis, name |-> name, fields |-> fields]

StructLayout(module, struct_name, fields, total_size) ==
    [module |-> module, struct_name |-> struct_name, fields |-> fields,
     total_size |-> total_size]

AccessorSpec(module, struct_name, field_name, get, set, ty, byte_offset) ==
    [module |-> module, struct_name |-> struct_name, field_name |-> field_name,
     get |-> get, set |-> set, ty |-> ty, byte_offset |-> byte_offset]

\* Every type but String takes one word.
field_byte_size_word(ty) == IF ty.tag = "String" THEN 8 ELSE 4

field_byte_size(ty) ==
    CASE ty.tag = "String" -> 8
      [] ty.tag = "Int" -> 4
      [] ty.tag = "Bool" -> 4
      [] ty.tag = "Unit" -> 0
      [] ty.tag = "Path" -> 4
      [] ty.tag = "Ref" -> 4

\* knox_syntax::setter_name: format!("set_{}", field_name)
knox_syntax_setter_name(field_name) == S_set \o << "_" >> \o field_name

\* The loop of build_struct_layout from field i on: the (name, type, offset)
\* triples pushed so far and the running offset.
RECURSIVE LayoutLoop(_, _, _, _)
LayoutLoop(fs, i, fields, off) ==
    IF i > Len(fs) THEN [fields |-> fields, offset |-> off]
    ELSE LayoutLoop(fs, i + 1, Append(fields, << fs[i].name, fs[i].ty, off >>),
                    off + field_byte_size(fs[i].ty))

build_struct_layout(module, s) ==
    LET r == LayoutLoop(s.fields, 1, << >>, 0)
    IN  StructLayout(module, s.name, r.fields, r.offset)

\* layout.fields.iter().find(|(n, _, _)| n == &field_name): the index of the
\* first triple of that name, 0 when there is none.
RECURSIVE LayoutFieldAt(_, _, _)
LayoutFieldAt(fields, field_name, i) ==
    IF i > Len(fields) THEN 0
    ELSE IF fields[i][1] = field_name THEN i
    ELSE LayoutFieldAt(fields, field_name, i + 1)

\* The accessor specs of the fields of s from field i on.
RECURSIVE SpecsOfFields(_, _, _, _)
SpecsOfFields(mod_name, s, layout, i) ==
    IF i > Len(s.fields) THEN << >>
    ELSE LET f == s.fields[i]
             k == LayoutFieldAt(layout.fields, f.name, 1)
             found == IF k = 0 THEN << f.name, TypeUnit, 0 >> ELSE layout.fields[k]
         IN  (IF ~f.attrs.get /\ ~f.attrs.set THEN << >>
              ELSE << AccessorSpec(mod_name, s.name, f.name, f.attrs.get, f.attrs.set,
                                   found[2], found[3]) >>)
             \o SpecsOfFields(mod_name, s, layout, i + 1)

\* The items of one module from item i on, added to the two tables.
RECURSIVE CollectStructs(_, _, _, _)
CollectStructs(mod_name, items, i, acc) ==
    IF i > Len(items) THEN acc
    ELSE IF items[i].tag = "Struct" /\ items[i].decl.vis = "Exported"
         THEN LET s == items[i].decl
                  layout == build_struct_layout(mod_name, s)
              IN  CollectStructs(mod_name, items, i + 1,
                      [layouts |-> Append(acc.layouts, layout),
                       accessors |-> acc.accessors \o SpecsOfFields(mod_name, s, layout, 1)])
    ELSE CollectStructs(mod_name, items, i + 1, acc)

RECURSIVE CollectDeps(_, _, _)
CollectDeps(ds, d, acc) ==
    IF d > Len(ds) THEN acc
    ELSE CollectDeps(ds, d + 1, CollectStructs(ds[d][1], ds[d][2].items, 1, acc))

collect_struct_layouts_and_accessors(ds) ==
    CollectDeps(ds, 1, [layouts |-> << >>, accessors |-> << >>])

\* ---------------------------------------------------------------------------
\* The accessor pass on one module with one struct.
\* ---------------------------------------------------------------------------
S_age == << "a", "g", "e" >>
S_id == << "i", "d" >>
S_price == << "p", "r", "i", "c", "e" >>
S_mymod == << "m", "y", "m", "o", "d" >>
S_Product == << "P", "r", "o", "d", "u", "c", "t" >>

\* A struct has up to MaxFields fields; field k is called FieldNames[k].
MaxFields == 3
FieldNames == << S_age, S_user_id, S_x, S_y, S_a, S_b >>
FieldTypes ==
    {TypeInt, TypeString, TypeBool, TypeUnit, TypePath(<< S_mymod, S_Product >>),
     TypeRef(TypeInt, FALSE)}

\* The attributes of the fields of a struct: none has any, all have
\* @pub(get, set), or @pub(get) and @pub(set) take turns.
AttrPatterns == {"none", "both", "turns"}
PatternAttrs(pat, k) ==
    CASE pat = "none" -> FieldAttrs(FALSE, FALSE)
      [] pat = "both" -> FieldAttrs(TRUE, TRUE)
      [] pat = "turns" -> FieldAttrs(k % 2 = 1, k % 2 = 0)

FieldLists(n) ==
    { [k \in 1 .. n |-> StructField(FieldNames[k], tys[k], PatternAttrs(pat, k))] :
        tys \in [1 .. n -> FieldTypes], pat \in AttrPatterns }

\* The struct of the test layout_and_accessors_arbitrary_struct.
ProductDecl ==
    StructDeclVis("Exported", S_Product,
                  << StructField(S_id, TypeInt, FieldAttrs(TRUE, FALSE)),
                     StructField(S_price, TypeInt, FieldAttrs(TRUE, TRUE)) >>)

StructDecls ==
    { ProductDecl }
    \cup UNION { { StructDeclVis(vis, S_P, fs) : fs \in FieldLists(n),
                                                vis \in {"Private", "Exported"} } :
                 n \in 0 .. MaxFields }

ModuleOf(s) == << << S_mymod, Root(<< ItemStruct(s) >>) >> >>

AccessorInputs == { ModuleOf(s) : s \in StructDecls }

TheStruct == deps[1][2].items[1].decl

InitAccessors ==
    /\ deps \in AccessorInputs
    /\ stage = "struct"
    /\ layouts = << >>
    /\ accessors = << >>
    /\ setters = << >>
    /\ runs = << >>
    /\ tokens = << >>
    /\ root = << >>
    /\ parsed = << >>
    /\ diagnostics = << >>
    /\ source = << >>
    /\ offset = 0
    /\ MachineIdle

\* build_struct_layout(module, &s)
BuildStructLayout ==
    /\ stage = "struct"
    /\ layouts' = << build_struct_layout(deps[1][1], TheStruct) >>
    /\ stage' = "layout"
    /\ UNCHANGED <<deps, accessors, setters, runs, tokens, root, parsed, diagnostics,
                   lexVars, machineVars>>

\* collect_struct_layouts_and_accessors(&deps)
CollectStructLayoutsAndAccessors ==
    /\ stage = "struct"
    /\ LET r == collect_struct_layouts_and_accessors(deps)
       IN  layouts' = r.layouts /\ accessors' = r.accessors
    /\ stage' = "collected"
    /\ UNCHANGED <<deps, setters, runs, tokens, root, parsed, diagnostics,
                   lexVars, machineVars>>

\* Both setter_name functions on the name of one field of the struct.
SetterName ==
    /\ stage = "struct"
    /\ \E k \in 1 .. Len(TheStruct.fields) :
          setters' = << [field_name |-> TheStruct.fields[k].name,
                         syntax |-> knox_syntax_setter_name(TheStruct.fields[k].name),
                         desugar |-> setter_name(TheStruct.fields[k].name)] >>
    /\ stage' = "named"
    /\ UNCHANGED <<deps, layouts, accessors, runs, tokens, root, parsed, diagnostics,
                   lexVars, machineVars>>

AccessorsNext == BuildStructLayout \/ CollectStructLayoutsAndAccessors \/ SetterName

SpecAccessors == InitAccessors /\ [][AccessorsNext]_vars

\* C16: every setter naming function returns "set_" followed by the field
\* name unchanged, the one desugar_root names generated setters with included.
C16_SetterNames ==
    stage = "named" =>
        \A i \in 1 .. Len(setters) :
            /\ setters[i].syntax = << "s", "e", "t", "_" >> \o setters[i].field_name
            /\ setters[i].desugar = << "s", "e", "t", "_" >> \o setters[i].field_name

\* What holds: knox_syntax::setter_name keeps the field name behind "set_";
\* desugar's setter_name drops the underscores and capitalises behind them.
C16_SyntaxSetterName ==
    stage = "named" =>
        \A i \in 1 .. Len(setters) :
            /\ setters[i].syntax = << "s", "e", "t", "_" >> \o setters[i].field_name
            /\ setters[i].field_name = S_age => setters[i].desugar = << "s", "e", "t", "A", "g", "e" >>
            /\ setters[i].field_name = S_user_id =>
                   setters[i].desugar = << "s", "e", "t", "U", "s", "e", "r", "I", "d" >>


\* The size the layout rule gives a field type.
LayoutRuleSize(ty) ==
    IF ty.tag = "String" THEN 8
    ELSE IF ty.tag = "Unit" THEN 0
    ELSE 4

\* The sum of the sizes of the first k fields.
RECURSIVE SizesBefore(_, _)
SizesBefore(fs, k) ==
    IF k = 0 THEN 0 ELSE SizesBefore(fs, k - 1) + LayoutRuleSize(fs[k].ty)

\* C17: build_struct_layout keeps the fields in declaration order, gives
\* field k the offset that is the sum of the sizes of the fields before it
\* (String 8, Int 4, Bool 4, Unit 0, Path and Ref 4) and makes total_size the
\* sum of all field sizes.
C17_LayoutOffsets ==
    stage = "layout" =>
        LET l == layouts[1]
            fs == TheStruct.fields
        IN  /\ Len(layouts) = 1
            /\ l.module = deps[1][1]
            /\ l.struct_name = TheStruct.name
            /\ Len(l.fields) = Len(fs)
            /\ \A k \in 1 .. Len(fs) :
                  l.fields[k] = << fs[k].name, fs[k].ty, SizesBefore(fs, k - 1) >>
            /\ l.total_size = SizesBefore(fs, Len(fs))

\* A String, a Unit and an Int field: offsets 0, 8 and 8, 12 bytes in all.
C17_Witness ==
    /\ stage = "layout"
    /\ Len(TheStruct.fields) = 3
    /\ TheStruct.fields[1].ty = TypeString
    /\ TheStruct.fields[2].ty = TypeUnit
    /\ TheStruct.fields[3].ty = TypeInt
    /\ layouts[1].fields[2][3] = 8
    /\ layouts[1].fields[3][3] = 8
    /\ layouts[1].total_size = 12


(***************************************************************************)
(* The desugar pass of compile.                                            *)
(***************************************************************************)
Desugared == stage \in {"desugared", "checked"} \/ (stage = "failed" /\ parsed # << >>)

\* C18: the desugar pass does not mutate the AST: after it the item list of
\* the Root is the item list parse_root returned, and no generated accessor
\* is an item of the Root.
C18_RootUnchanged == Desugared => root.items = parsed.items

\* The items of xs that are not generated accessors of the struct before
\* them, in order: what is left of a desugared item list when the items
\* desugar_root added are taken out again.
RECURSIVE WithoutAccessors(_, _, _)
WithoutAccessors(xs, i, skip) ==
    IF i > Len(xs) THEN << >>
    ELSE IF skip > 0 THEN WithoutAccessors(xs, i + 1, skip - 1)
    ELSE IF xs[i].tag = "Struct"
         THEN << xs[i] >>
              \o WithoutAccessors(xs, i + 1, Len(generate_accessors(xs[i].decl)))
    ELSE << xs[i] >> \o WithoutAccessors(xs, i + 1, 0)

\* What holds: desugar_root rewrites root.items; the parsed items are kept
\* in order, and behind every struct stand its generated getter and setter
\* functions as items of the Root; the side tables are not written.
C18_AccessorsAreItems ==
    Desugared =>
        /\ WithoutAccessors(root.items, 1, 0) = parsed.items
        /\ (tokens = StructTokens(TRUE, TRUE) =>
               /\ Len(root.items) = Len(parsed.items) + 2
               /\ root.items[2].tag = "Fn"
               /\ root.items[3].tag = "Fn")
        /\ layouts = << >>
        /\ accessors = << >>


(***************************************************************************)
(* Lowering: knox_compiler/src/lower/to_ir.rs, over the AST of             *)
(* knox_syntax/src/ast.rs.                                                 *)
(*                                                                         *)
(* A std HashMap is a list of (key, value) entries in the order an         *)
(* iteration would visit them.  That order depends on the map's random     *)
(* hasher state: the seed of a run decides on which side of the entries a  *)
(* new key lands.                                                          *)
(***************************************************************************)
Seeds == {"front", "back"}

HashMapNew == << >>

\* The position of key k in the map, 0 when it has no entry.
RECURSIVE HashPos(_, _, _)
HashPos(map, k, i) ==
    IF i > Len(map) THEN 0
    ELSE IF map[i].k = k THEN i
    ELSE HashPos(map, k, i + 1)

\* An insert that never replaces: a key can have several entries.
HashInsert_keep(map, k, v, seed) ==
    IF seed = "front" THEN << [k |-> k, v |-> v] >> \o map
    ELSE Append(map, [k |-> k, v |-> v])

\* HashMap::insert: the value of an existing key is replaced in place.
HashInsert(map, k, v, seed) ==
    IF HashPos(map, k, 1) # 0
    THEN [map EXCEPT ![HashPos(map, k, 1)].v = v]
    ELSE IF seed = "front" THEN << [k |-> k, v |-> v] >> \o map
    ELSE Append(map, [k |-> k, v |-> v])

\* HashMap::get
HashGet(map, k) ==
    IF HashPos(map, k, 1) = 0 THEN None ELSE Some(map[HashPos(map, k, 1)].v)

\* Expressions and items of ast.rs that the parser's AST has no like of.
ExprIntLiteral(value) == [tag |-> "IntLiteral", value |-> value]
ExprStringLiteral(value) == [tag |-> "StringLiteral", value |-> value]
ExprBoolLiteral(value) == [tag |-> "BoolLiteral", value |-> value]
ExprStructLiteral(path, fields) ==
    [tag |-> "StructLiteral", path |-> path, fields |-> fields]
\* Expr::Call { receiver, name, args }
ExprMethodCall(receiver, name, args) ==
    [tag |-> "Call", receiver |-> receiver, name |-> name, args |-> args]

\* The order of bytes among the characters of identifiers.
AsciiOrder == UpperChars \o << "_" >> \o LowerChars
ByteRank(c) == CHOOSE i \in 1 .. Len(AsciiOrder) : AsciiOrder[i] = c

\* Ord for String: -1, 0 or 1 as a is less than, equal to or greater than b.
RECURSIVE StrCmp(_, _, _)
StrCmp(a, b, i) ==
    IF i > Len(a) /\ i > Len(b) THEN 0
    ELSE IF i > Len(a) THEN -1
    ELSE IF i > Len(b) THEN 1
    ELSE IF ByteRank(a[i]) < ByteRank(b[i]) THEN -1
    ELSE IF ByteRank(a[i]) > ByteRank(b[i]) THEN 1
    ELSE StrCmp(a, b, i + 1)


\* A comparison of the tuples (module, struct_name, field_name, !is_get).
AccessorAfter_by_field(x, y) ==
    LET m == StrCmp(x.a.module, y.a.module, 1)
        s == StrCmp(x.a.struct_name, y.a.struct_name, 1)
        f == StrCmp(x.a.field_name, y.a.field_name, 1)
    IN  IF m # 0 THEN m = 1
        ELSE IF s # 0 THEN s = 1
        ELSE IF f # 0 THEN f = 1
        ELSE x.is_get # y.is_get /\ y.is_get

\* The comparison lower_to_ir sorts accessor_list by: the tuples
\* (module, struct_name, !is_get, field_name), true when x comes behind y.
AccessorAfter(x, y) ==
    LET m == StrCmp(x.a.module, y.a.module, 1)
        s == StrCmp(x.a.struct_name, y.a.struct_name, 1)
        f == StrCmp(x.a.field_name, y.a.field_name, 1)
    IN  IF m # 0 THEN m = 1
        ELSE IF s # 0 THEN s = 1
        ELSE IF x.is_get # y.is_get THEN y.is_get
        ELSE f = 1

\* sort_by is stable: an entry goes behind every entry it does not come before.
RECURSIVE SortedInsert(_, _, _)
SortedInsert(sorted, x, i) ==
    IF i > Len(sorted) THEN Append(sorted, x)
    ELSE IF AccessorAfter(sorted[i], x)
         THEN SubSeq(sorted, 1, i - 1) \o << x >> \o SubSeq(sorted, i, Len(sorted))
    ELSE SortedInsert(sorted, x, i + 1)

RECURSIVE SortAccessors(_, _, _)
SortAccessors(list, i, sorted) ==
    IF i > Len(list) THEN sorted
    ELSE SortAccessors(list, i + 1, SortedInsert(sorted, list[i], 1))

\* accessors.iter().flat_map(..): a getter entry, then a setter entry.
RECURSIVE AccessorEntries(_, _)
AccessorEntries(as, i) ==
    IF i > Len(as) THEN << >>
    ELSE (IF as[i].get THEN << [a |-> as[i], is_get |-> TRUE] >> ELSE << >>)
         \o (IF as[i].set THEN << [a |-> as[i], is_get |-> FALSE] >> ELSE << >>)
         \o AccessorEntries(as, i + 1)

\* The first field called field_name among the structs called struct_name
\* of the modules called module: whether it is a String.
RECURSIVE GetterFieldIn(_, _, _)
GetterFieldIn(fields, field_name, i) ==
    IF i > Len(fields) THEN None
    ELSE IF fields[i].name = field_name THEN Some(fields[i].ty.tag = "String")
    ELSE GetterFieldIn(fields, field_name, i + 1)

RECURSIVE GetterInItems(_, _, _, _)
GetterInItems(items, struct_name, field_name, i) ==
    IF i > Len(items) THEN None
    ELSE LET hit == IF items[i].tag = "Struct" /\ items[i].decl.name = struct_name
                    THEN GetterFieldIn(items[i].decl.fields, field_name, 1)
                    ELSE None
         IN  IF hit # None THEN hit
             ELSE GetterInItems(items, struct_name, field_name, i + 1)

RECURSIVE GetterInDeps(_, _, _, _, _)
GetterInDeps(ds, module, struct_name, field_name, d) ==
    IF d > Len(ds) THEN None
    ELSE LET hit == IF ds[d][1] = module
                    THEN GetterInItems(ds[d][2].items, struct_name, field_name, 1)
                    ELSE None
         IN  IF hit # None THEN hit
             ELSE GetterInDeps(ds, module, struct_name, field_name, d + 1)

is_getter_string(ds, module, struct_name, field_name) ==
    LET hit == GetterInDeps(ds, module, struct_name, field_name, 1)
    IN  hit # None /\ hit[1]

resolve_receiver_type(receiver, var_to_type) ==
    IF receiver.tag = "Ident"
    THEN IF HashGet(var_to_type, receiver.name) = None
         THEN Err(<< "variable '{}' has unknown type (not a struct literal?)",
                     receiver.name >>)
         ELSE Ok(HashGet(var_to_type, receiver.name)[1], 0)
    ELSE Err(<< "receiver must be ident" >>)


\* What lower_function hands down by &mut: the instructions pushed so far,
\* local_types, string_data and the two variable tables.
LowerState(out_, local_types, string_data, var_to_local, var_to_type) ==
    [out |-> out_, local_types |-> local_types, string_data |-> string_data,
     var_to_local |-> var_to_local, var_to_type |-> var_to_type]

\* out.push of each instruction of instrs
Push(cx, instrs) == [cx EXCEPT !.out = @ \o instrs]

\* A next_local that hands out an index without pushing a local.
NextLocal_unpushed(cx) == cx

\* next_local: the index it returns is Len(cx.local_types) before the call
NextLocal(cx) == [cx EXCEPT !.local_types = Append(@, TyInt)]
\* string_data.push: the data_id is Len(cx.string_data) before the call
PushString(cx, value) == [cx EXCEPT !.string_data = Append(@, value)]

\* struct_layouts.iter().find(|l| l.module == key.0 && l.struct_name == key.1)
RECURSIVE FindLayout(_, _, _)
FindLayout(struct_layouts, key, i) ==
    IF i > Len(struct_layouts) THEN 0
    ELSE IF struct_layouts[i].module = key[1] /\ struct_layouts[i].struct_name = key[2]
         THEN i
    ELSE FindLayout(struct_layouts, key, i + 1)

StartsWithSet(name) == Len(name) >= 4 /\ SubSeq(name, 1, 4) = << "s", "e", "t", "_" >>

RECURSIVE lower_expr_to_local(_, _, _, _)
RECURSIVE LowerStructFields(_, _, _, _, _, _, _)

\* The loop over the fields of a struct literal, from field i on.
LowerStructFields(fields, i, key, layout, dest_local, cx, env) ==
    IF i > Len(fields) THEN Ok(cx, 0)
    ELSE LET fname == fields[i][1]
             fexpr == fields[i][2]
             k == LayoutFieldAt(layout.fields, fname, 1)
         IN  IF k = 0 THEN Err(<< "field {} not in {}::{}", fname, key[1], key[2] >>)
             ELSE IF layout.fields[k][2].tag = "String"
             THEN LET ptr_local == Len(cx.local_types)
                      len_local == Len(cx.local_types) + 1
                      data_id == Len(cx.string_data)
                  IN  IF fexpr.tag = "StringLiteral"
                      THEN LowerStructFields(fields, i + 1, key, layout, dest_local,
                               Push(PushString(NextLocal(NextLocal(cx)), fexpr.value),
                                    << Ir3("ConstString", ptr_local, len_local, data_id),
                                       Ir4("StructSetStr", dest_local, layout.fields[k][3],
                                           ptr_local, len_local) >>),
                               env)
                      ELSE Err(<< "string field in struct literal must be a string literal" >>)
             ELSE LET val_local == Len(cx.local_types) IN
                  Try(lower_expr_to_local(fexpr, val_local, NextLocal(cx), env), LAMBDA r :
                      LowerStructFields(fields, i + 1, key, layout, dest_local,
                          Push(r.v, << Ir3("StructSet", dest_local, layout.fields[k][3],
                                           val_local) >>),
                          env))

\* print(arg)
LowerPrint(arg, cx, env) ==
    IF arg.tag = "StringLiteral"
    THEN LET ptr_local == Len(cx.local_types)
             len_local == Len(cx.local_types) + 1
             data_id == Len(cx.string_data)
         IN  Ok(Push(PushString(NextLocal(NextLocal(cx)), arg.value),
                     << Ir3("ConstString", ptr_local, len_local, data_id),
                        Ir2("PrintStr", ptr_local, len_local) >>), 0)
    ELSE IF arg.tag = "Call" /\ arg.receiver # None /\ arg.args = << >>
    THEN LET arg_local == Len(cx.local_types)
             rec_local == Len(cx.local_types) + 1
         IN  Try(lower_expr_to_local(arg.receiver[1], rec_local, NextLocal(NextLocal(cx)), env),
             LAMBDA r :
             Try(resolve_receiver_type(arg.receiver[1], r.v.var_to_type), LAMBDA ty :
                 LET idx == HashGet(env.func_index, << ty.v[1], ty.v[2], arg.name, TRUE >>)
                     len_local == Len(r.v.local_types)
                 IN  IF idx = None
                     THEN Err(<< "getter not found: {} for {}", arg.name, ty.v[2] >>)
                     ELSE IF is_getter_string(env.deps, ty.v[1], ty.v[2], arg.name)
                     THEN Ok(Push(NextLocal(r.v),
                                  << Ir1("LocalGet", rec_local),
                                     Ir3("CallStr", idx[1], arg_local, len_local),
                                     Ir2("PrintStr", arg_local, len_local) >>), 0)
                     ELSE Ok(Push(r.v,
                                  << Ir1("LocalGet", rec_local), Ir1("Call", idx[1]),
                                     Ir1("LocalSet", arg_local),
                                     Ir1("PrintInt", arg_local) >>), 0)))
    ELSE LET arg_local == Len(cx.local_types) IN
         Try(lower_expr_to_local(arg, arg_local, NextLocal(cx), env), LAMBDA r :
             Ok(Push(r.v, << Ir1("PrintInt", arg_local) >>), 0))

\* receiver.set_<field>(value)
LowerSetterCall(expr, cx, env) ==
    LET field == SubSeq(expr.name, 5, Len(expr.name))
        rec_local == Len(cx.local_types)
    IN  Try(lower_expr_to_local(expr.receiver[1], rec_local, NextLocal(cx), env), LAMBDA r :
        LET val_local == Len(r.v.local_types) IN
        Try(lower_expr_to_local(expr.args[1], val_local, NextLocal(r.v), env), LAMBDA a :
        Try(resolve_receiver_type(expr.receiver[1], a.v.var_to_type), LAMBDA ty :
            LET idx == HashGet(env.func_index, << ty.v[1], ty.v[2], field, FALSE >>)
            IN  IF idx = None
                THEN Err(<< "setter not found: set_{} for {}", field, ty.v[2] >>)
                ELSE Ok(Push(a.v, << Ir1("LocalGet", rec_local), Ir1("LocalGet", val_local),
                                     Ir1("Call", idx[1]) >>), 0))))

UnsupportedCall(expr) ==
    Err(<< "unsupported call: {} (receiver: {:?})", expr.name, expr.receiver >>)

\* receiver.<field>() where the field has a getter
LowerGetterCall(expr, dest_local, cx, env) ==
    Try(resolve_receiver_type(expr.receiver[1], cx.var_to_type), LAMBDA ty :
        LET idx == HashGet(env.func_index, << ty.v[1], ty.v[2], expr.name, TRUE >>)
            rec_local == Len(cx.local_types)
        IN  IF idx = None THEN UnsupportedCall(expr)
            ELSE Try(lower_expr_to_local(expr.receiver[1], rec_local, NextLocal(cx), env),
                 LAMBDA r :
                 LET len_local == Len(r.v.local_types) IN
                 IF is_getter_string(env.deps, ty.v[1], ty.v[2], expr.name)
                 THEN Ok(Push(NextLocal(r.v),
                              << Ir1("LocalGet", rec_local),
                                 Ir3("CallStr", idx[1], dest_local, len_local) >>), 0)
                 ELSE Ok(Push(r.v, << Ir1("LocalGet", rec_local), Ir1("Call", idx[1]),
                                      Ir1("LocalSet", dest_local) >>), 0)))

LowerStructLiteral(expr, dest_local, cx, env) ==
    IF Len(expr.path) # 2
    THEN Err(<< "struct literal path must be module::Struct" >>)
    ELSE LET key == << expr.path[1], expr.path[2] >>
             lid == HashGet(env.layout_id, key)
             l == FindLayout(env.struct_layouts, key, 1)
         IN  IF lid = None
             THEN Err(<< "layout not found for {}::{}", expr.path[1], expr.path[2] >>)
             ELSE IF l = 0
             THEN Err(<< "struct layout not found for {}::{}", key[1], key[2] >>)
             ELSE LowerStructFields(expr.fields, 1, key, env.struct_layouts[l], dest_local,
                      Push(cx, << Ir1("StructAlloc", lid[1]), Ir1("LocalSet", dest_local) >>),
                      env)

lower_expr_to_local(expr, dest_local, cx, env) ==
    CASE expr.tag = "IntLiteral" ->
            Ok(Push(cx, << Ir1("ConstInt", expr.value), Ir1("LocalSet", dest_local) >>), 0)
      [] expr.tag = "StringLiteral" ->
            Ok(Push(PushString(NextLocal(cx), expr.value),
                    << Ir3("ConstString", dest_local, Len(cx.local_types),
                           Len(cx.string_data)) >>), 0)
      [] expr.tag = "StructLiteral" -> LowerStructLiteral(expr, dest_local, cx, env)
      [] expr.tag = "Ident" ->
            IF HashGet(cx.var_to_local, expr.name) = None
            THEN Err(<< "variable not found: {}", expr.name >>)
            ELSE Ok(Push(cx, << Ir1("LocalGet", HashGet(cx.var_to_local, expr.name)[1]),
                                Ir1("LocalSet", dest_local) >>), 0)
      [] expr.tag = "Call" ->
            IF expr.name = S_print /\ Len(expr.args) = 1 /\ expr.receiver = None
            THEN LowerPrint(expr.args[1], cx, env)
            ELSE IF expr.receiver # None
            THEN IF StartsWithSet(expr.name) /\ Len(expr.args) = 1
                 THEN LowerSetterCall(expr, cx, env)
                 ELSE LowerGetterCall(expr, dest_local, cx, env)
            ELSE UnsupportedCall(expr)
      [] OTHER -> Err(<< "unsupported expression: {:?}", expr >>)

lower_stmt(stmt, cx, env) ==
    CASE stmt.tag = "Let" ->
            LET local == Len(cx.local_types)
                named == [NextLocal(cx) EXCEPT
                             !.var_to_local = HashInsert(@, stmt.name, local, env.seed)]
                typed == IF stmt.init.tag = "StructLiteral" /\ Len(stmt.init.path) = 2
                         THEN [named EXCEPT
                                  !.var_to_type =
                                      HashInsert(@, stmt.name,
                                                 << stmt.init.path[1], stmt.init.path[2] >>,
                                                 env.seed)]
                         ELSE named
            IN  lower_expr_to_local(stmt.init, local, typed, env)
      [] stmt.tag = "Expr" ->
            lower_expr_to_local(stmt.expr, Len(cx.local_types), NextLocal(cx), env)
      [] stmt.tag = "Return" ->
            IF stmt.value # None
            THEN LET tmp == Len(cx.local_types) IN
                 Try(lower_expr_to_local(stmt.value[1], tmp, NextLocal(cx), env), LAMBDA r :
                     Ok(Push(r.v, << Ir1("ReturnInt", tmp) >>), 0))
            ELSE Ok(Push(cx, << Ir("Return") >>), 0)

RECURSIVE LowerStmts(_, _, _, _)
LowerStmts(stmts, i, cx, env) ==
    IF i > Len(stmts) THEN Ok(cx, 0)
    ELSE Try(lower_stmt(stmts[i], cx, env), LAMBDA r : LowerStmts(stmts, i + 1, r.v, env))

\* params.iter().enumerate().map(|(i, p)| (p.name.clone(), i as u32)).collect()
RECURSIVE ParamLocals(_, _, _, _)
ParamLocals(params, i, map, seed) ==
    IF i > Len(params) THEN map
    ELSE ParamLocals(params, i + 1, HashInsert(map, params[i].name, i - 1, seed), seed)

\* lower_function: Ok carries the IrFunction and string_data as it leaves it.
lower_function(name, params, body, string_data, env) ==
    LET param_types == [i \in 1 .. Len(params) |-> params[i].ty]
        cx == LowerState(<< >>, param_types, string_data,
                         ParamLocals(params, 1, HashMapNew, env.seed), HashMapNew)
    IN  Try(LowerStmts(body.stmts, 1, cx, env), LAMBDA r :
            Ok([f |-> IrFunction(name, param_types,
                                 SubSeq(r.v.local_types, Len(params) + 1,
                                        Len(r.v.local_types)),
                                 Append(r.v.out, Ir("Return"))),
                string_data |-> r.v.string_data], 0))


\* main_root.items.iter().find_map(..): the index of the first fn main, or 0.
RECURSIVE FindMain(_, _)
FindMain(items, i) ==
    IF i > Len(items) THEN 0
    ELSE IF items[i].tag = "Fn" /\ items[i].decl.name = S_main THEN i
    ELSE FindMain(items, i + 1)

\* func_index: main is 0, the entries of the sorted accessor_list follow.
RECURSIVE FuncIndexOf(_, _, _, _)
FuncIndexOf(list, i, map, seed) ==
    IF i > Len(list) THEN map
    ELSE FuncIndexOf(list, i + 1,
             HashInsert(map, << list[i].a.module, list[i].a.struct_name,
                                list[i].a.field_name, list[i].is_get >>, i, seed),
             seed)

\* layout_id: program.struct_layouts.iter().enumerate()...collect()
RECURSIVE LayoutIdOf(_, _, _, _)
LayoutIdOf(struct_layouts, i, map, seed) ==
    IF i > Len(struct_layouts) THEN map
    ELSE LayoutIdOf(struct_layouts, i + 1,
             HashInsert(map, << struct_layouts[i].module, struct_layouts[i].struct_name >>,
                        i - 1, seed),
             seed)

\* The IrFunction of one entry of accessor_list.
AccessorFunction(a, is_getter, byte_offset) ==
    IrFunction(
        IF is_getter
        THEN a.module \o << "_" >> \o a.struct_name \o << "_" >> \o a.field_name
        ELSE a.module \o << "_" >> \o a.struct_name \o << "_", "s", "e", "t", "_" >>
             \o a.field_name,
        IF is_getter THEN << TyInt >> ELSE << TyInt, TyInt >>,
        IF is_getter
        THEN (IF a.ty.tag = "String" THEN << TyInt, TyInt >> ELSE << TyInt >>)
        ELSE << >>,
        IF is_getter
        THEN (IF a.ty.tag = "String"
              THEN << Ir4("StructGetStr", 0, byte_offset, 1, 2), Ir2("ReturnStr", 1, 2) >>
              ELSE << Ir3("StructGet", 0, byte_offset, 1), Ir1("ReturnInt", 1) >>)
        ELSE << Ir3("StructSet", 0, byte_offset, 1), Ir("Return") >>)

\* Step 4 of lower_to_ir from entry i of accessor_list on.
RECURSIVE LowerAccessors(_, _, _, _)
LowerAccessors(list, i, functions, env) ==
    IF i > Len(list) THEN Ok(functions, 0)
    ELSE LET a == list[i].a
             lid == HashGet(env.layout_id, << a.module, a.struct_name >>)
         IN  IF lid = None
             THEN Err(<< "layout not found for {}/{}", a.module, a.struct_name >>)
             ELSE LET fields == env.struct_layouts[lid[1] + 1].fields
                      k == LayoutFieldAt(fields, a.field_name, 1)
                      byte_offset == IF k = 0 THEN 0 ELSE fields[k][3]
                  IN  LowerAccessors(list, i + 1,
                          Append(functions, AccessorFunction(a, list[i].is_get, byte_offset)),
                          env)

\* lower_to_ir in a run whose hash maps are seeded with seed.
lower_to_ir(main_root, ds, ls, as, seed) ==
    LET m == FindMain(main_root.items, 1)
        accessor_list == SortAccessors(AccessorEntries(as, 1), 1, << >>)
        env == [deps |-> ds,
                struct_layouts |-> ls,
                func_index |-> FuncIndexOf(accessor_list, 1, HashMapNew, seed),
                layout_id |-> LayoutIdOf(ls, 1, HashMapNew, seed),
                seed |-> seed]
    IN  IF m = 0 THEN Err(<< "main function not found" >>)
        ELSE LET main_fn == main_root.items[m].decl IN
             Try(lower_function(main_fn.name, main_fn.params, main_fn.body, << >>, env),
             LAMBDA main_ir :
             Try(LowerAccessors(accessor_list, 1, << main_ir.v.f >>, env), LAMBDA fs :
                 Ok(Program(fs.v, ls, main_ir.v.string_data), 0)))

\* ---------------------------------------------------------------------------
\* Two runs of lower_to_ir and emit_from_ir on the same input.
\* ---------------------------------------------------------------------------
S_hi == << "h", "i" >>
S_p == << "p" >>
S_set_age == << "s", "e", "t", "_", "a", "g", "e" >>

\* module mymod: an exported struct P with an int and a string field.
LowerDeps ==
    ModuleOf(StructDeclVis("Exported", S_P,
                 << StructField(S_age, TypeInt, FieldAttrs(TRUE, TRUE)),
                    StructField(S_x, TypeString, FieldAttrs(TRUE, FALSE)) >>))

\* let p = mymod::P { age: 1, x: "hi" };
LetP ==
    StmtLet(S_p, FALSE, None,
            ExprStructLiteral(<< S_mymod, S_P >>,
                << << S_age, ExprIntLiteral(1) >>, << S_x, ExprStringLiteral(S_hi) >> >>))

GetterCall(field) == ExprMethodCall(Some(ExprIdent(S_p)), field, << >>)
PrintOf(arg) == ExprMethodCall(None, S_print, << arg >>)

LowerStmtSet ==
    { StmtLet(S_y, FALSE, None, ExprIntLiteral(2)),
      StmtLet(S_y, FALSE, None, GetterCall(S_age)),
      StmtExpr(PrintOf(ExprIdent(S_y))),
      StmtExpr(PrintOf(ExprStringLiteral(S_hi))),
      StmtExpr(PrintOf(GetterCall(S_age))),
      StmtExpr(PrintOf(GetterCall(S_x))),
      StmtExpr(ExprMethodCall(Some(ExprIdent(S_p)), S_set_age, << ExprIdent(S_y) >>)),
      StmtExpr(ExprBoolLiteral(TRUE)),
      StmtReturn(None) }

\* main has up to MaxLowerStmts statements.
MaxLowerStmts == 2

LowerBodies == UNION { SeqsOfLen(LowerStmtSet, n) : n \in 0 .. MaxLowerStmts }

MainRoot(params, stmts) ==
    Root(<< ItemFn(FnDecl(S_main, params, TypeUnit, Block(stmts), FALSE)) >>)

\* fn main() with the statements alone and behind `let p`, and
\* fn main(y: int) with the statements behind `let p`.
LowerRoots ==
    { MainRoot(<< >>, b) : b \in LowerBodies }
    \cup { MainRoot(<< >>, << LetP >> \o b) : b \in LowerBodies }
    \cup { MainRoot(<< Param(S_y, TypeInt) >>, << LetP >> \o b) : b \in LowerBodies }

S_A == << "A" >>

\* The side tables: as collect_struct_layouts_and_accessors builds them, with
\* every accessor spec listed twice, with every layout listed twice, empty,
\* and with the specs in reverse between those of a struct mymod::A and of a
\* struct a::P.
LowerTables ==
    LET t == collect_struct_layouts_and_accessors(LowerDeps)
    IN  { t,
          [layouts |-> t.layouts, accessors |-> t.accessors \o t.accessors],
          [layouts |-> t.layouts \o t.layouts, accessors |-> t.accessors],
          [layouts |-> << >>, accessors |-> << >>],
          [layouts |-> t.layouts
                       \o << StructLayout(S_mymod, S_A, << << S_y, TypeInt, 0 >> >>, 4),
                             StructLayout(S_a, S_P, << << S_age, TypeInt, 0 >> >>, 4) >>,
           accessors |-> << AccessorSpec(S_mymod, S_A, S_y, TRUE, TRUE, TypeInt, 0) >>
                         \o [i \in 1 .. Len(t.accessors) |->
                                t.accessors[Len(t.accessors) + 1 - i]]
                         \o << AccessorSpec(S_a, S_P, S_age, TRUE, FALSE, TypeInt, 0) >>] }

InitLower ==
    /\ root \in LowerRoots
    /\ deps = LowerDeps
    /\ \E t \in LowerTables : layouts = t.layouts /\ accessors = t.accessors
    /\ runs = << >>
    /\ stage = "lower"
    /\ setters = << >>
    /\ tokens = << >>
    /\ parsed = << >>
    /\ diagnostics = << >>
    /\ source = << >>
    /\ offset = 0
    /\ MachineIdle

\* One run: lower_to_ir, and emit_from_ir on the Program when there is one.
RunOf(seed) ==
    LET r == lower_to_ir(root, deps, layouts, accessors, seed)
    IN  [seed |-> seed,
         result |-> r,
         wasm |-> IF r.ok THEN emit_from_ir(r.v) ELSE NoModule]

FirstRun ==
    /\ stage = "lower"
    /\ \E seed \in Seeds : runs' = << RunOf(seed) >>
    /\ stage' = "ran"
    /\ UNCHANGED <<root, deps, layouts, accessors, setters, tokens, parsed, diagnostics,
                   lexVars, machineVars>>

SecondRun ==
    /\ stage = "ran"
    /\ \E seed \in Seeds : runs' = Append(runs, RunOf(seed))
    /\ stage' = "reran"
    /\ UNCHANGED <<root, deps, layouts, accessors, setters, tokens, parsed, diagnostics,
                   lexVars, machineVars>>

LowerNext == FirstRun \/ SecondRun

SpecLower == InitLower /\ [][LowerNext]_vars

\* C20: two runs of lower_to_ir followed by emit_from_ir on the same main
\* module, dependencies, layouts and accessor specs give the same Program (or
\* the same error) and the same module, whatever order the hash maps of each
\* run keep their entries in.
C20_Deterministic ==
    stage = "reran" =>
        /\ runs[1].result = runs[2].result
        /\ runs[1].wasm = runs[2].wasm

\* Two runs with different seeds of a main that shadows its parameter y and
\* calls a getter, with every accessor spec listed twice.
C20_Witness ==
    /\ stage = "reran"
    /\ runs[1].seed # runs[2].seed
    /\ runs[1].result.ok
    /\ Len(accessors) = 4
    /\ root.items[1].decl.params # << >>
    /\ root.items[1].decl.body.stmts =
           << LetP, StmtLet(S_y, FALSE, None, GetterCall(S_age)),
              StmtExpr(PrintOf(ExprIdent(S_y))) >>
    /\ Len(runs[2].wasm.codes) = 10


(***************************************************************************)
(* The type-checking stage and its diagnostics.                            *)
(***************************************************************************)
HasError(d) == \E i \in 1 .. Len(d) : d[i].level = "Error"

\* check_root has run: it returned Ok, or it returned Err.
CheckedOk == stage = "checked"
CheckedErr == stage = "failed" /\ parsed # << >>

\* C21: the type-checking stage fails if and only if its diagnostics hold an
\* Error: after Err the list compile returns has at least one Error-level
\* diagnostic, after Ok the list has none.
C21_FailsIffError ==
    /\ CheckedErr => (~check_root(root).ok /\ diagnostics # << >> /\ HasError(diagnostics))
    /\ CheckedOk => (check_root(root).ok /\ ~HasError(diagnostics))

\* A module without main: check_root returns Err with its one diagnostic.
C21_Witness ==
    /\ CheckedErr
    /\ Len(diagnostics) = 1
    /\ diagnostics[1] =
           DiagnosticError(<< "No main function found. Expected fn main() -> () { ... }" >>)


\* C23: in every layout build_struct_layout produces, every field's byte
\* offset is strictly less than total_size, Unit fields included.
C23_OffsetsBelowTotal ==
    stage = "layout" =>
        \A k \in 1 .. Len(layouts[1].fields) :
            layouts[1].fields[k][3] < layouts[1].total_size

\* What holds: an offset never exceeds total_size, and it is strictly less
\* unless the field and every field behind it is a Unit.
C23_OffsetsWithinTotal ==
    stage = "layout" =>
        \A k \in 1 .. Len(layouts[1].fields) :
            /\ layouts[1].fields[k][3] <= layouts[1].total_size
            /\ layouts[1].fields[k][3] = layouts[1].total_size
                   <=> \A j \in k .. Len(layouts[1].fields) :
                           layouts[1].fields[j][2] = TypeUnit


(***************************************************************************)
(* The order of the functions of a lowered Program.                        *)
(***************************************************************************)
\* (module, struct_name, is_setter, field_name) of x is less than that of y.
KeyLess(x, y) ==
    LET m == StrCmp(x.a.module, y.a.module, 1)
        s == StrCmp(x.a.struct_name, y.a.struct_name, 1)
        f == StrCmp(x.a.field_name, y.a.field_name, 1)
    IN  \/ m = -1
        \/ m = 0 /\ s = -1
        \/ m = 0 /\ s = 0 /\ x.is_get /\ ~y.is_get
        \/ m = 0 /\ s = 0 /\ x.is_get = y.is_get /\ f = -1

KeyEqual(x, y) == ~KeyLess(x, y) /\ ~KeyLess(y, x)

\* The getter and setter entries of the accessor specs, in the order given.
Entries == AccessorEntries(accessors, 1)

\* The place among the accessors that ascending order gives entry i: behind
\* every entry of a smaller key and every earlier entry of the same key.
PlaceOf(es, i) ==
    1 + Cardinality({j \in 1 .. Len(es) : KeyLess(es[j], es[i])})
      + Cardinality({j \in 1 .. i - 1 : KeyEqual(es[j], es[i])})

\* <module>_<Struct>_<field> and <module>_<Struct>_set_<field>
AccessorName(module, struct_name, field_name, is_get) ==
    module \o << "_" >> \o struct_name \o << "_" >>
    \o (IF is_get THEN << >> ELSE << "s", "e", "t", "_" >>) \o field_name

\* The accessor a statement of main calls on p (a mymod::P): its name, or
\* none when the statement calls none.
CalledBy(e) ==
    IF e.tag = "Call" /\ e.receiver # None
    THEN IF StartsWithSet(e.name) /\ Len(e.args) = 1
         THEN << AccessorName(S_mymod, S_P, SubSeq(e.name, 5, Len(e.name)), FALSE) >>
         ELSE << AccessorName(S_mymod, S_P, e.name, TRUE) >>
    ELSE IF e.tag = "Call" /\ e.name = S_print /\ Len(e.args) = 1
    THEN (IF e.args[1].tag = "Call" /\ e.args[1].receiver # None
          THEN << AccessorName(S_mymod, S_P, e.args[1].name, TRUE) >>
          ELSE << >>)
    ELSE << >>

RECURSIVE CalledNames(_, _)
CalledNames(stmts, i) ==
    IF i > Len(stmts) THEN << >>
    ELSE (IF stmts[i].tag = "Let" THEN CalledBy(stmts[i].init)
          ELSE IF stmts[i].tag = "Expr" THEN CalledBy(stmts[i].expr)
          ELSE << >>)
         \o CalledNames(stmts, i + 1)

MainStmts == root.items[1].decl.body.stmts

\* C22: in every Program lower_to_ir returns, functions[0] is main and the
\* accessors follow in ascending order of (module, struct_name, is_setter,
\* field_name); the index of every Call and CallStr of main is the position
\* of the accessor the statement calls.
C22_FunctionOrder ==
    (stage = "ran" /\ runs[1].result.ok) =>
            LET fs == runs[1].result.v.functions
                t == IrCallTargets(fs[1].body, 1)
                called == CalledNames(MainStmts, 1)
                es == Entries
            IN  /\ Len(fs) = 1 + Len(es)
                /\ fs[1].name = S_main
                /\ \A i \in 1 .. Len(es) :
                      LET e == es[i]
                          f == fs[1 + PlaceOf(es, i)]
                      IN  /\ f.name = AccessorName(e.a.module, e.a.struct_name,
                                                   e.a.field_name, e.is_get)
                          /\ Len(f.params) = IF e.is_get THEN 1 ELSE 2
                /\ Len(t) = Len(called)
                /\ \A k \in 1 .. Len(t) :
                      /\ t[k] \in 1 .. Len(fs) - 1
                      /\ fs[t[k] + 1].name = called[k]

\* Six accessors of three structs given out of order; main calls the setter
\* of age, function 6 of the Program.
C22_Witness ==
    /\ stage = "ran"
    /\ runs[1].result.ok
    /\ Len(Entries) = 6
    /\ Entries[1].a.struct_name = S_A
    /\ Len(runs[1].result.v.functions) = 7
    /\ MainStmts = << LetP, StmtLet(S_y, FALSE, None, ExprIntLiteral(2)),
                      StmtExpr(ExprMethodCall(Some(ExprIdent(S_p)), S_set_age,
                                              << ExprIdent(S_y) >>)) >>
    /\ IrCallTargets(runs[1].result.v.functions[1].body, 1) = << 6 >>


(***************************************************************************)
(* Lowering of a struct literal: main is `let p = mymod::P { ... };`.      *)
(***************************************************************************)
\* A literal lists up to MaxLiteralFields fields.
MaxLiteralFields == 3

\* age: 1, x: "hi", and a field the struct does not have.
LiteralFieldSet ==
    { << S_age, ExprIntLiteral(1) >>, << S_x, ExprStringLiteral(S_hi) >>,
      << S_y, ExprIntLiteral(2) >> }

LiteralFieldLists == UNION { SeqsOfLen(LiteralFieldSet, n) : n \in 0 .. MaxLiteralFields }

LetLiteral(fields) ==
    StmtLet(S_p, FALSE, None, ExprStructLiteral(<< S_mymod, S_P >>, fields))

InitLiteral ==
    /\ \E fields \in LiteralFieldLists : root = MainRoot(<< >>, << LetLiteral(fields) >>)
    /\ deps = LowerDeps
    /\ LET t == collect_struct_layouts_and_accessors(LowerDeps)
       IN  layouts = t.layouts /\ accessors = t.accessors
    /\ runs = << >>
    /\ stage = "lower"
    /\ setters = << >>
    /\ tokens = << >>
    /\ parsed = << >>
    /\ diagnostics = << >>
    /\ source = << >>
    /\ offset = 0
    /\ MachineIdle

SpecLiteral == InitLiteral /\ [][LowerNext]_vars

\* The StructSet and StructSetStr instructions of a body, in order: the
\* instruction and the offset it writes at.
RECURSIVE FieldStores(_, _)
FieldStores(body, k) ==
    IF k > Len(body) THEN << >>
    ELSE (IF body[k].op \in {"StructSet", "StructSetStr"}
          THEN << << body[k].op, body[k].b >> >> ELSE << >>)
         \o FieldStores(body, k + 1)

\* One store per field of the layout, in declaration order.
StoresOfLayout(layout) ==
    [k \in 1 .. Len(layout.fields) |->
        << IF layout.fields[k][2].tag = "String" THEN "StructSetStr" ELSE "StructSet",
           layout.fields[k][3] >>]

\* One store per field the literal lists, in the order of the literal.
StoresOfLiteral(layout, fields) ==
    [k \in 1 .. Len(fields) |->
        LET f == layout.fields[LayoutFieldAt(layout.fields, fields[k][1], 1)]
        IN  << IF f[2].tag = "String" THEN "StructSetStr" ELSE "StructSet", f[3] >>]

LiteralFields == MainStmts[1].init.fields
Lowered == stage = "ran" /\ runs[1].result.ok
MainBody == runs[1].result.v.functions[1].body

\* The literal names every field of the layout, each once.
ListsEachFieldOnce ==
    /\ Len(LiteralFields) = Len(layouts[1].fields)
    /\ \A k \in 1 .. Len(layouts[1].fields) :
          \E j \in 1 .. Len(LiteralFields) : LiteralFields[j][1] = layouts[1].fields[k][1]

\* C26: a struct literal lowers to one StructAlloc followed by exactly one
\* StructSet or StructSetStr for each field of the struct's layout, in the
\* layout's declaration order, whatever the order of the literal's fields.
C26_LayoutOrder ==
    (Lowered /\ ListsEachFieldOnce) =>
        /\ MainBody[1].op = "StructAlloc"
        /\ Cardinality({k \in 1 .. Len(MainBody) : MainBody[k].op = "StructAlloc"}) = 1
        /\ FieldStores(MainBody, 1) = StoresOfLayout(layouts[1])

\* What holds: one StructAlloc, then one store per field the literal lists,
\* in the literal's order: a field it leaves out is not stored, a field it
\* lists twice is stored twice.
C26_LiteralOrder ==
    Lowered =>
        /\ MainBody[1].op = "StructAlloc"
        /\ Cardinality({k \in 1 .. Len(MainBody) : MainBody[k].op = "StructAlloc"}) = 1
        /\ FieldStores(MainBody, 1) = StoresOfLiteral(layouts[1], LiteralFields)


(***************************************************************************)
(* The locals of lowered functions.                                        *)
(***************************************************************************)
\* The operands of an IR instruction that are indices of locals.
LocalOperands(instr) ==
    CASE instr.op \in {"LocalGet", "LocalSet", "PrintInt", "ReturnInt"} -> {instr.a}
      [] instr.op \in {"ConstString", "PrintStr", "ReturnStr"} -> {instr.a, instr.b}
      [] instr.op \in {"StructSet", "StructGet"} -> {instr.a, instr.c}
      [] instr.op \in {"StructSetStr", "StructGetStr"} -> {instr.a, instr.c, instr.d}
      [] instr.op = "CallStr" -> {instr.b, instr.c}
      [] OTHER -> {}

\* C27: in every IR function lower_to_ir produces, main and the generated
\* getters and setters, every LocalGet and LocalSet index (and every other
\* operand that names a local) is less than params.len() + locals.len().
C27_LocalsInRange ==
    (stage = "ran" /\ runs[1].result.ok) =>
        \A i \in 1 .. Len(runs[1].result.v.functions) :
            LET f == runs[1].result.v.functions[i] IN
            \A k \in 1 .. Len(f.body) :
                \A x \in LocalOperands(f.body[k]) :
                    x >= 0 /\ x < Len(f.params) + Len(f.locals)

\* fn main(y: int) { let p = ..; let y = p.age(); print(y); }: the last
\* local of main is read, and the Program has the three accessors.
C27_Witness ==
    /\ stage = "ran"
    /\ runs[1].result.ok
    /\ Len(runs[1].result.v.functions) = 4
    /\ MainStmts = << LetP, StmtLet(S_y, FALSE, None, GetterCall(S_age)),
                      StmtExpr(PrintOf(ExprIdent(S_y))) >>
    /\ LET f == runs[1].result.v.functions[1]
       IN  /\ Len(f.params) = 1
           /\ \E k \in 1 .. Len(f.body) :
                 f.body[k].op = "LocalSet" /\ f.body[k].a = Len(f.params) + Len(f.locals) - 1


(***************************************************************************)
(* Struct allocation: Programs whose main is a sequence of StructAlloc,    *)
(* each result stored in a local of its own, run on the machine.           *)
(***************************************************************************)
\* main allocates 1..MaxAllocs structs.
MaxAllocs == 3

\* The layouts of the Programs: total sizes 0, 4, 5 and 12 (emit_from_ir
\* rounds whatever total_size the Program carries); layout id 4 is out of
\* range, which emit_ir_function takes as size 0.
AllocLayouts ==
    << StructLayout(S_mymod, S_A, << >>, 0),
       StructLayout(S_mymod, S_P, << >>, 4),
       StructLayout(S_mymod, S_Product, << >>, 5),
       StructLayout(S_mymod, S_main, << >>, 12) >>

AllocLayoutIds == 0 .. Len(AllocLayouts)

\* StructAlloc(lids[k]); LocalSet(k - 1) for each k, as lower_expr_to_local
\* writes a struct literal's allocation, then the Return of lower_function.
RECURSIVE AllocBody(_, _)
AllocBody(lids, k) ==
    IF k > Len(lids) THEN << Ir("Return") >>
    ELSE << Ir1("StructAlloc", lids[k]), Ir1("LocalSet", k - 1) >>
         \o AllocBody(lids, k + 1)

AllocProgram(lids) ==
    Program(<< IrFunction("main", << >>, [k \in 1 .. Len(lids) |-> TyInt],
                          AllocBody(lids, 1)) >>,
            AllocLayouts, << >>)

AllocPrograms ==
    UNION { { AllocProgram(lids) : lids \in SeqsOfLen(AllocLayoutIds, n) } :
            n \in 1 .. MaxAllocs }

InitAlloc ==
    /\ program \in AllocPrograms
    /\ wasm = NoModule
    /\ frames = << >>
    /\ mem = << >>
    /\ glob = 0
    /\ out = << >>
    /\ calls = << >>
    /\ status = "ir"
    /\ FrontIdle

\* These Programs print nothing: the machine without fd_write.
AllocNext == EmitFromIr \/ Instantiate \/ Exec \/ CallFunc \/ Return \/ ProcExit

SpecAlloc == InitAlloc /\ [][AllocNext]_vars

\* The smallest multiple of 4 that is at least size.
RoundUp4(size) == size + ((4 - (size % 4)) % 4)

\* main is running: its frame sits above the frame of _start.
InMain == status = "running" /\ Len(frames) >= 2 /\ frames[2].fidx = MAIN_IDX

\* The allocations main has completed: the LocalSet instructions before pc.
AllocsDone ==
    LET body == wasm.codes[MAIN_IDX - 1].body
    IN  Cardinality({k \in 1 .. frames[2].pc - 1 : body[k].op = "LocalSet"})

\* total_size of the k-th allocation of the Program.
AllocSize(k) ==
    TotalSizeOr0(program.struct_layouts, program.functions[1].body[2 * k - 1].a)

RECURSIVE SumRounded(_)
SumRounded(k) == IF k = 0 THEN 0 ELSE SumRounded(k - 1) + RoundUp4(AllocSize(k))

\* The pointer the k-th allocation returned.
AllocPtr(k) == frames[2].locals[k]

AllocPointers ==
    InMain =>
        /\ \A k \in 1 .. AllocsDone :
              /\ AllocPtr(k) = 8228 + SumRounded(k - 1)
              /\ AllocPtr(k) % 4 = 0
        /\ \A j, k \in 1 .. AllocsDone :
              j < k => AllocPtr(j) + AllocSize(j) <= AllocPtr(k)

\* C24: the k-th StructAlloc returns 8228 plus the sum of the rounded sizes
\* of the earlier allocations; the bump global never decreases, every
\* pointer is a multiple of 4 and the byte ranges of different allocations
\* do not overlap.
C24_BumpAllocator == [](AllocPointers) /\ [][glob' >= glob]_vars

\* Sizes 5, 0 and 12 allocated in turn: 8228, 8236, 8236, global at 8248.
C24_Witness ==
    /\ InMain
    /\ AllocsDone = 3
    /\ frames[2].locals = << 8228, 8236, 8236 >>
    /\ glob = 8248


(***************************************************************************)
(* The order of _start: newline byte, main, proc_exit(0).                  *)
(***************************************************************************)
\* How many times the function fidx was called so far.
CallCount(fidx) == Cardinality({k \in 1 .. Len(calls) : calls[k] = fidx})

NewlineStored == ReadByte(mem, NEWLINE_OFF) = 10

\* This step calls the function fidx.
CallsNow(fidx) == Len(calls') = Len(calls) + 1 /\ calls'[Len(calls')] = fidx

StartOrder ==
    /\ CallCount(MAIN_IDX) <= 1
    /\ (MAIN_IDX \in {calls[k] : k \in 1 .. Len(calls)}) => calls[2] = MAIN_IDX
    /\ status = "exited" =>
          /\ CallCount(MAIN_IDX) = 1
          /\ CallCount(PROC_EXIT) = 1
          /\ calls[Len(calls)] = PROC_EXIT

StartSteps ==
    /\ (CallsNow(MAIN_IDX) \/ CallsNow(FD_WRITE)) => NewlineStored
    /\ CallsNow(MAIN_IDX) => (Len(frames) = 1 /\ frames[1].fidx = wasm.start)
    /\ CallsNow(PROC_EXIT) =>
          /\ CallCount(MAIN_IDX) = 1
          /\ Len(frames) = 1
          /\ frames[1].fidx = wasm.start
          /\ frames[1].stack = << 0 >>

\* C25: _start stores the byte 0x0A at the newline offset before main runs
\* and so before any fd_write, calls main (index 4) exactly once, and calls
\* proc_exit(0) only after main has returned.
C25_StartOrder == [](StartOrder) /\ [][StartSteps]_vars

\* A run to its end: _start, main, print_int, two fd_write, proc_exit.
C25_Witness ==
    /\ status = "exited"
    /\ calls = << 5, MAIN_IDX, PRINT_INT, FD_WRITE, FD_WRITE, PROC_EXIT >>
    /\ NewlineStored
    /\ out = << 52, 50, 10 >>


(***************************************************************************)
(* A setter call followed by a getter call, lowered, emitted and run.      *)
(***************************************************************************)
S_set_x == << "s", "e", "t", "_", "x" >>
S_abc == << "a", "b", "c" >>

\* module mymod: struct P { @get @set age: int, @get @set x: string }
RoundTripDeps ==
    ModuleOf(StructDeclVis("Exported", S_P,
                 << StructField(S_age, TypeInt, FieldAttrs(TRUE, TRUE)),
                    StructField(S_x, TypeString, FieldAttrs(TRUE, TRUE)) >>))

\* The values the struct is built with and the values handed to the setters.
\* lower_expr_to_local has no case for a bool literal, so no Program sets a
\* bool field to a value of its own.
IntValues == {0, 1, 7, -1, MaxI32}
StringValues == { << >>, S_a, S_hi, S_abc }

SetterOf(field) == IF field = S_age THEN S_set_age ELSE S_set_x

\* let p = mymod::P { age: a0, x: x0 }; p.set_<field>(v); let y = p.<field>();
RoundTripMain(a0, x0, field, v) ==
    MainRoot(<< >>,
        << StmtLet(S_p, FALSE, None,
               ExprStructLiteral(<< S_mymod, S_P >>,
                   << << S_age, ExprIntLiteral(a0) >>,
                      << S_x, ExprStringLiteral(x0) >> >>)),
           StmtExpr(ExprMethodCall(Some(ExprIdent(S_p)), SetterOf(field), << v >>)),
           StmtLet(S_y, FALSE, None, GetterCall(field)) >>)

RoundTripRoots ==
    { RoundTripMain(1, x0, S_age, ExprIntLiteral(v)) : x0 \in {S_hi}, v \in IntValues }
    \cup { RoundTripMain(1, x0, S_x, ExprStringLiteral(v)) :
             x0 \in StringValues, v \in StringValues }

InitRoundTrip ==
    /\ root \in RoundTripRoots
    /\ deps = RoundTripDeps
    /\ LET t == collect_struct_layouts_and_accessors(RoundTripDeps)
       IN  layouts = t.layouts /\ accessors = t.accessors
    /\ runs = << >>
    /\ stage = "lower"
    /\ setters = << >>
    /\ tokens = << >>
    /\ parsed = << >>
    /\ diagnostics = << >>
    /\ source = << >>
    /\ offset = 0
    /\ MachineIdle

\* lower_to_ir on the main module and the side tables; the Program it returns
\* goes on to emit_from_ir.
LowerToIr ==
    /\ stage = "lower"
    /\ \E seed \in Seeds :
          LET r == lower_to_ir(root, deps, layouts, accessors, seed)
          IN  IF r.ok
              THEN program' = r.v /\ status' = "ir" /\ stage' = "lowered"
              ELSE stage' = "failed" /\ UNCHANGED <<program, status>>
    /\ UNCHANGED <<wasm, frames, mem, glob, out, calls, root, tokens, parsed,
                   diagnostics, lexVars, sideVars>>

RoundTripNext ==
    LowerToIr \/ EmitFromIr \/ Instantiate \/ Exec \/ CallFunc \/ Return \/ ProcExit

SpecRoundTrip == InitRoundTrip /\ [][RoundTripNext]_vars

\* main has run all its statements and stands at its End.
AtMainEnd ==
    /\ InMain
    /\ Len(frames) = 2
    /\ frames[2].pc = Len(wasm.codes[MAIN_IDX - 1].body)

MainIr == program.functions[1].body

\* The setter's argument and the field it is called on, from the source.
SetArg == root.items[1].decl.body.stmts[2].expr.args[1]
SetIsString == SetArg.tag = "StringLiteral"

\* What `let y = p.<field>()` left in main's locals: the LocalSet, or the
\* CallStr, that ends the statement names them.
GotInstr == MainIr[Len(MainIr) - 1]
GotInt == frames[2].locals[GotInstr.a + 1]
GotPtr == frames[2].locals[GotInstr.b + 1]
GotLen == frames[2].locals[GotInstr.c + 1]

\* Where the setter's argument lies: the last ConstString of main.
ArgInstr ==
    MainIr[CHOOSE k \in 1 .. Len(MainIr) :
              /\ MainIr[k].op = "ConstString"
              /\ \A j \in k + 1 .. Len(MainIr) : MainIr[j].op # "ConstString"]
ArgPtr == frames[2].locals[ArgInstr.a + 1]
ArgLen == frames[2].locals[ArgInstr.b + 1]

\* The string the struct was built with.
BuiltWith == root.items[1].decl.body.stmts[1].init.fields[2][2].value

\* C28: after x.set_f(v) the call x.f() returns v; for a String field both
\* the pointer and the length of v.
C28_RoundTrip ==
    AtMainEnd =>
        IF SetIsString
        THEN /\ GotPtr = ArgPtr
             /\ GotLen = Len(SetArg.value)
             /\ ReadBytes(mem, GotPtr, GotLen) = SetArg.value
        ELSE GotInt = SetArg.value

\* What holds: an int comes back as it was set; of a string the pointer
\* comes back, with the length the field had before the call.
C28_PointerOnly ==
    AtMainEnd =>
        IF SetIsString
        THEN /\ GotPtr = ArgPtr
             /\ ArgLen = Len(SetArg.value)
             /\ GotLen = Len(BuiltWith)
        ELSE GotInt = SetArg.value


(***************************************************************************)
(* The operand stack of the emitted function bodies.                       *)
(***************************************************************************)
\* The statements of SpecLower and `return 2;`, `return p.age();`.
ReturnStmtSet ==
    LowerStmtSet
    \cup { StmtReturn(Some(ExprIntLiteral(2))), StmtReturn(Some(GetterCall(S_age))) }

ReturnBodies == UNION { SeqsOfLen(ReturnStmtSet, n) : n \in 0 .. MaxLowerStmts }

ReturnRoots ==
    { MainRoot(<< >>, b) : b \in ReturnBodies }
    \cup { MainRoot(<< >>, << LetP >> \o b) : b \in ReturnBodies }

InitReturn ==
    /\ root \in ReturnRoots
    /\ deps = LowerDeps
    /\ LET t == collect_struct_layouts_and_accessors(LowerDeps)
       IN  layouts = t.layouts /\ accessors = t.accessors
    /\ runs = << >>
    /\ stage = "lower"
    /\ setters = << >>
    /\ tokens = << >>
    /\ parsed = << >>
    /\ diagnostics = << >>
    /\ source = << >>
    /\ offset = 0
    /\ MachineIdle

SpecReturn == InitReturn /\ [][LowerToIr \/ EmitFromIr]_vars

\* Operands an instruction pushes.
Pushes(op) ==
    IF op \in {"I32Const", "LocalGet", "LocalTee", "GlobalGet", "I32Add", "I32RemS",
               "I32DivS", "I32LtS", "I32GeS", "I32Load", "I32Load8U"}
    THEN 1 ELSE 0

\* The height of the operand stack at the first End of a body without
\* blocks, from height h before body[k]; -1 when an instruction finds too
\* few operands, when the body has no End, or when the End is not last.
RECURSIVE HeightAtEnd(_, _, _, _)
HeightAtEnd(m, body, k, h) ==
    IF k > Len(body) THEN -1
    ELSE LET ins == body[k]
             pops == IF ins.op = "Call" THEN FuncType(m, ins.a).params ELSE Pops(ins.op)
             pushes == IF ins.op = "Call" THEN FuncType(m, ins.a).results
                       ELSE Pushes(ins.op)
         IN  IF ins.op = "End" THEN (IF k = Len(body) THEN h ELSE -1)
             ELSE IF h < pops THEN -1
             ELSE HeightAtEnd(m, body, k + 1, h - pops + pushes)

\* The body of the function at Wasm index fidx ends with exactly the results
\* of its type on the stack.
Balanced(m, fidx) ==
    HeightAtEnd(m, m.codes[fidx - 1].body, 1, 0) = FuncType(m, fidx).results

\* The first return statement of main is a `return e;` (emit_ir_function
\* stops at the first Return* of the body).
ReturnsValue ==
    \E i \in 1 .. Len(MainStmts) :
        /\ MainStmts[i].tag = "Return" /\ MainStmts[i].value # None
        /\ \A j \in 1 .. i - 1 : MainStmts[j].tag # "Return"

\* C29: every emitted function body is stack-balanced against the type
\* ir_func_type_index chooses: no underflow, and at its End exactly the
\* results of that type (none for main, also when main has `return e;`).
C29_StackBalanced ==
    status = "emitted" =>
        \A k \in 1 .. Len(program.functions) : Balanced(wasm, MAIN_IDX + k - 1)

\* What holds: the getters and setters are balanced, and main is unless its
\* first return statement returns a value, which then stays on the stack.
C29_BalancedWithoutValue ==
    status = "emitted" =>
        /\ \A k \in 2 .. Len(program.functions) : Balanced(wasm, MAIN_IDX + k - 1)
        /\ ~ReturnsValue => Balanced(wasm, MAIN_IDX)
        /\ ReturnsValue =>
              /\ FuncType(wasm, MAIN_IDX).results = 0
              /\ HeightAtEnd(wasm, wasm.codes[MAIN_IDX - 1].body, 1, 0) = 1


(***************************************************************************)
(* The data segment and the runtime area: Programs that print two string   *)
(* literals, emitted and run.                                              *)
(***************************************************************************)
\* Lengths of the string literals: short ones, and ones that end just below,
\* at and beyond RUNTIME_BASE and beyond the iovec at IOV_OFF.
DataLengths == {0, 1, RUNTIME_BASE - 1, RUNTIME_BASE, RUNTIME_BASE + 1, IOV_OFF + 8}

StringOf(ch, n) == [k \in 1 .. n |-> ch]

\* fn main() -> () { print("aa.."); print("bb.."); } as lower_function
\* returns it: each statement takes a temporary, then the pointer and the
\* length local of its literal.
DataProgram(n1, n2) ==
    Program(<< IrFunction("main", << >>, [k \in 1 .. 6 |-> TyInt],
                          << Ir3("ConstString", 1, 2, 0), Ir2("PrintStr", 1, 2),
                             Ir3("ConstString", 4, 5, 1), Ir2("PrintStr", 4, 5),
                             Ir("Return") >>) >>,
            << >>, << StringOf("a", n1), StringOf("b", n2) >>)

InitData ==
    /\ \E n1, n2 \in DataLengths : program = DataProgram(n1, n2)
    /\ wasm = NoModule
    /\ frames = << >>
    /\ mem = << >>
    /\ glob = 0
    /\ out = << >>
    /\ calls = << >>
    /\ status = "ir"
    /\ FrontIdle

SpecData == InitData /\ [][MachineNext]_vars

Emitted == status # "ir"

\* The active data segment occupies [0, DataEnd).
DataEnd == Len(wasm.data)

\* C30: the data segment [0, total string bytes) is disjoint from the
\* runtime scratch area [8192, 8228) and from the bump-allocator region
\* that starts at 8228.
C30_RegionsDisjoint == Emitted => DataEnd <= RUNTIME_BASE

TotalStringBytes == Len(program.string_data[1]) + Len(program.string_data[2])

\* What holds: the segment is the strings one after the other from offset
\* 0, whatever their length, and the scratch area is fixed at 8192..8227;
\* the two are apart exactly when the strings have at most 8192 bytes, and
\* then the run prints both strings, each with its newline.
C30_DisjointWhenSmall ==
    Emitted =>
        /\ DataEnd = TotalStringBytes
        /\ wasm.global_init = 8228
        /\ (status = "exited" /\ TotalStringBytes <= RUNTIME_BASE) =>
              out = program.string_data[1] \o << 10 >>
                    \o program.string_data[2] \o << 10 >>

====
